---- MODULE Spec2Model ----
(***************************************************************************)
(* A model of chsvm: the bytecode compiler IrParser (src/src/compiler/ir.rs)*)
(* and the stack machine CHSVM (src/src/vm.rs), with the literal           *)
(* constructor of chs_ast (nodes.rs) and the token-level parser            *)
(* (src/src/compiler/parser.rs).                                           *)
(*                                                                         *)
(* The compiler is recursive; its call stack is the variable frames, one   *)
(* frame per active if_expr / while_expr / peek_expr call, holding that    *)
(* call's locals and the iterator of the expression list it is walking.    *)
(* The machine is stepped one execute_next_instr call per action.          *)
(***************************************************************************)
EXTENDS Integers, Sequences, FiniteSets, TLC

VARIABLES
    mode,        \* which entry point drives this behaviour
    source,      \* the expression sequence given to IrParser::new
    \* ---- IrParser (ir.rs:145-152)
    program,     \* IrParser.program: the expressions not yet taken by parse
    instrs,      \* IrParser.instrs
    consts,      \* IrParser.consts
    var_def,     \* IrParser.var_def: global name -> slot
    local_def,   \* IrParser.local_def: peek name -> position
    var_count,   \* IrParser.var_count
    frames,      \* the active block handlers, innermost last
    result,      \* "new", "running", "ok", "err" or "panic": what parse is doing / did
    error,       \* the GenericError of the last failed parse call
    bytecode,    \* the Bytecode the last successful parse call returned
    calls,       \* number of parse calls made on this IrParser
    last_peek,   \* history: the local window before and after the last peek block
    \* ---- CHSVM (vm.rs:19-26)
    vm_program,  \* CHSVM.program
    vm_consts,   \* the constant pool the machine was built with
    stack,       \* CHSVM.stack
    sp,          \* CHSVM.sp
    ip,          \* CHSVM.ip
    is_halted,   \* CHSVM.is_halted
    globals,     \* the global slot table
    output,      \* the values written by Print, in order
    vstate,      \* "off", "ready", "done" (run returned) or "crashed" (panic)
    driver,      \* "run": run() drives the steps; "manual": the caller single-steps
    last,        \* history: the last execute_next_instr call and what it returned
    overflow_checks, \* the build: TRUE with overflow checks (debug), FALSE without
    \* ---- Expression::from_literal_token (nodes.rs:44-65)
    token,       \* the Token given to from_literal_token
    literal,     \* what the call returned, LitPending before it
    \* ---- Parser (parser.rs:32-39)
    input,       \* the tokens the Lexer of Parser::new hands out, in order
    parser,      \* the Parser: lexer, peeked, pos, labels, label_count
    pinstrs,     \* instrs of Parser::parse
    pbody,       \* body of the Parser::proc call in progress
    pcalls,      \* the proc and if_block calls in progress, innermost last
    parsed       \* what Parser::parse returned, NotParsed before that

cvars == <<program, instrs, consts, var_def, local_def, var_count, frames,
           result, error, bytecode, calls, last_peek>>
mvars == <<vm_program, vm_consts, stack, sp, ip, is_halted, globals, output,
           vstate, driver, last, overflow_checks>>
lvars == <<token, literal>>
pvars == <<input, parser, pinstrs, pbody, pcalls, parsed>>
vars == <<mode, source, cvars, mvars, lvars, pvars>>

----------------------------------------------------------------------------
(* parse may be called again on the same IrParser *)
MaxCalls == 2

(* const STACK_CAPACITY (vm.rs:4) *)
STACK_CAPACITY == 1024

(* bounds of the inputs and of the runs *)
MaxOutput == 6
MaxPast == 2
MaxCount == 3
MaxOperand == 3

(* Option<T> *)
None == <<>>
Some(v) == <<v>>
IsSome(o) == Len(o) = 1
Unwrap(o) == o[1]

(* str::parse::<i64> and str::parse::<usize>: the digits of a text, the     *)
(* number they write, and whether it is within the range of the type       *)
Digits == {"0", "1", "2", "3", "4", "5", "6", "7", "8", "9"}
DigitValue(ch) ==
    CASE ch = "0" -> 0 [] ch = "1" -> 1 [] ch = "2" -> 2 [] ch = "3" -> 3
      [] ch = "4" -> 4 [] ch = "5" -> 5 [] ch = "6" -> 6 [] ch = "7" -> 7
      [] ch = "8" -> 8 [] ch = "9" -> 9

RECURSIVE StripZeros(_)
StripZeros(ds) ==
    IF Len(ds) > 1 /\ Head(ds) = "0" THEN StripZeros(Tail(ds)) ELSE ds

RECURSIVE DecimalValue(_, _)
DecimalValue(ds, acc) ==
    IF ds = <<>> THEN acc
    ELSE DecimalValue(Tail(ds), acc * 10 + DigitValue(Head(ds)))

(* i64::MAX, the magnitude of i64::MIN and usize::MAX (64 bit), in digits *)
I64MaxDigits ==
    <<"9", "2", "2", "3", "3", "7", "2", "0", "3", "6", "8", "5", "4", "7", "7",
      "5", "8", "0", "7">>
I64MinDigits ==
    <<"9", "2", "2", "3", "3", "7", "2", "0", "3", "6", "8", "5", "4", "7", "7",
      "5", "8", "0", "8">>
UsizeMaxDigits ==
    <<"1", "8", "4", "4", "6", "7", "4", "4", "0", "7", "3", "7", "0", "9", "5",
      "5", "1", "6", "1", "5">>

(* of two numerals of one length, the first writes no larger a number *)
RECURSIVE DigitsLeq(_, _)
DigitsLeq(a, b) ==
    IF a = <<>> THEN TRUE
    ELSE IF Head(a) # Head(b) THEN DigitValue(Head(a)) < DigitValue(Head(b))
    ELSE DigitsLeq(Tail(a), Tail(b))

(* the numeral ds, without leading zeros, writes a number of at most max *)
Fits(ds, max) ==
    \/ Len(ds) < Len(max)
    \/ Len(ds) = Len(max) /\ DigitsLeq(ds, max)

(* str::parse::<i64>: an optional sign and at least one digit, nothing     *)
(* else; None (an Err) for any other text and for a number outside         *)
(* i64::MIN..i64::MAX                                                      *)
ParseI64(text) ==
    LET signed == text # <<>> /\ Head(text) \in {"+", "-"}
        negative == signed /\ Head(text) = "-"
        ds == IF signed THEN Tail(text) ELSE text
    IN IF ds = <<>> \/ \E i \in 1..Len(ds) : ds[i] \notin Digits THEN None
       ELSE IF ~Fits(StripZeros(ds),
                     IF negative THEN I64MinDigits ELSE I64MaxDigits)
       THEN None
       ELSE LET n == DecimalValue(StripZeros(ds), 0)
            IN Some(IF negative THEN 0 - n ELSE n)

(* str::parse::<usize>: an optional plus sign and at least one digit; None *)
(* for any other text and for a number above usize::MAX                    *)
ParseUsize(text) ==
    LET signed == text # <<>> /\ Head(text) = "+"
        ds == IF signed THEN Tail(text) ELSE text
    IN IF ds = <<>> \/ \E i \in 1..Len(ds) : ds[i] \notin Digits THEN None
       ELSE IF ~Fits(StripZeros(ds), UsizeMaxDigits) THEN None
       ELSE Some(DecimalValue(StripZeros(ds), 0))

(* Instr::new(kind, operands) *)
Instr(kind, operands) == [kind |-> kind, operands |-> operands]

(* HashMap<String, usize> as a function on the set of its keys *)
EmptyMap == [k \in {} |-> 0]
MapInsert(m, k, v) == [x \in (DOMAIN m) \cup {k} |-> IF x = k THEN v ELSE m[x]]
MapRemove(m, k) == [x \in (DOMAIN m) \ {k} |-> m[x]]
MapLen(m) == Cardinality(DOMAIN m)

(* Value::Int64 / Value::Str / Value::List *)
Int64(v) == [t |-> "Int64", v |-> v]
Str(s) == [t |-> "Str", s |-> s]
List(l) == [t |-> "List", l |-> l]

(* Vec<T>: replace the element at 0-based index i *)
SetAt(s, i, x) == [s EXCEPT ![i + 1] = x]
Reverse(s) == [i \in 1..Len(s) |-> s[Len(s) + 1 - i]]

----------------------------------------------------------------------------
(* The expression tree, ir.rs:96-110; an IntExpr holds the text of the     *)
(* literal, a sequence of characters                                       *)
IntExpr(v) == [tag |-> "IntExpr", v |-> v]
StrExpr(s) == [tag |-> "StrExpr", s |-> s]
IdentExpr(n) == [tag |-> "IdentExpr", name |-> n]
Assigin(n) == [tag |-> "Assigin", name |-> n]
Op(o) == [tag |-> "Op", op |-> o]
Buildin(b) == [tag |-> "Buildin", op |-> b]
ListExpr(l) == [tag |-> "ListExpr", l |-> l]
SetExpr == [tag |-> "Set"]
If(c, t, e) == [tag |-> "If", cond |-> c, if_branch |-> t, else_branch |-> e]
Whlie(c, b) == [tag |-> "Whlie", cond |-> c, while_block |-> b]
Var(n, v) == [tag |-> "Var", name |-> n, value |-> v]
Peek(ns, b) == [tag |-> "Peek", names |-> ns, body |-> b]

(* usize::from(&BuildinOp), ir.rs:51-63 *)
BuildinId(b) ==
    CASE b = "IdxGet" -> 0
      [] b = "IdxSet" -> 1
      [] b = "Len" -> 2
      [] b = "Println" -> 3
      [] b = "Print" -> 4
      [] b = "Debug" -> 5
      [] b = "FuncCall" -> 12

(* Opcode::from(&Operation): each operation lowers to the opcode of its name *)
OpcodeFrom(o) == o

----------------------------------------------------------------------------
(* The compiler's mutable fields as one record, so that a handler is a      *)
(* function from fields to fields; err is "" while no error was raised.     *)
CState ==
    [instrs |-> instrs, consts |-> consts, var_def |-> var_def,
     local_def |-> local_def, var_count |-> var_count, err |-> ""]

Emit(c, i) == [c EXCEPT !.instrs = Append(@, i)]
Fail(c, msg) == [c EXCEPT !.err = msg]

(* in place of a message: the call did not return, unwrap() panicked        *)
(* (ir.rs:275)                                                             *)
Panic == "called Result::unwrap() on an Err value"

(* mutant: a new global is given the current slot and the counter stays *)
assigin_expr_mutant(c, name) ==
    IF name \in DOMAIN c.var_def
    THEN Emit(c, Instr("GlobalStore", Some(c.var_def[name])))
    ELSE LET var_ptr == c.var_count
             c1 == [c EXCEPT !.var_def = MapInsert(@, name, var_ptr)]
         IN Emit(c1, Instr("GlobalStore", Some(var_ptr)))

(* IrParser::simple_expr, Assigin arm (ir.rs:305-315) *)
assigin_expr(c, name) ==
    IF name \in DOMAIN c.var_def
    THEN Emit(c, Instr("GlobalStore", Some(c.var_def[name])))
    ELSE LET var_ptr == c.var_count
             c1 == [c EXCEPT !.var_count = @ + 1,
                             !.var_def = MapInsert(@, name, var_ptr)]
         IN Emit(c1, Instr("GlobalStore", Some(var_ptr)))

(* mutant: the global slot table is looked up before the local window *)
ident_expr_mutant(c, name) ==
    IF name \in DOMAIN c.var_def
    THEN Emit(c, Instr("GlobalLoad", Some(c.var_def[name])))
    ELSE IF name \in DOMAIN c.local_def
         THEN Emit(c, Instr("PushBind", Some(c.local_def[name])))
         ELSE Fail(c, "is not defined")

(* IrParser::simple_expr, IdentExpr arm (ir.rs:296-304) *)
ident_expr(c, name) ==
    IF name \in DOMAIN c.local_def
    THEN Emit(c, Instr("PushBind", Some(c.local_def[name])))
    ELSE IF name \in DOMAIN c.var_def
         THEN Emit(c, Instr("GlobalLoad", Some(c.var_def[name])))
         ELSE Fail(c, "is not defined")

(* a literal: pushed on the pool, then Const(len - 1) (ir.rs:275-277,      *)
(* 280-282, 285-287)                                                       *)
const_expr(c, value) ==
    LET c1 == [c EXCEPT !.consts = Append(@, value)]
    IN Emit(c1, Instr("Const", Some(Len(c1.consts) - 1)))

(* IrParser::simple_expr (ir.rs:272-319) *)
simple_expr(c, e) ==
    CASE e.tag = "IntExpr" ->
           LET v == ParseI64(e.v)
           IN IF IsSome(v) THEN const_expr(c, Int64(Unwrap(v)))
              ELSE Fail(c, Panic)
      [] e.tag = "StrExpr" -> const_expr(c, Str(e.s))
      [] e.tag = "ListExpr" -> const_expr(c, List(e.l))
      [] e.tag = "Op" -> Emit(c, Instr(OpcodeFrom(e.op), None))
      [] e.tag = "Buildin" -> Emit(c, Instr("Buildin", Some(BuildinId(e.op))))
      [] e.tag = "IdentExpr" -> ident_expr(c, e.name)
      [] e.tag = "Assigin" -> assigin_expr(c, e.name)
      [] OTHER -> Fail(c, "is not simple expression")

(* for e in value { self.simple_expr(e)?; } (ir.rs:219-221) *)
RECURSIVE simple_seq(_, _)
simple_seq(c, es) ==
    IF es = <<>> THEN c
    ELSE LET c1 == simple_expr(c, Head(es))
         IN IF c1.err # "" THEN c1 ELSE simple_seq(c1, Tail(es))

(* IrParser::var_expr (ir.rs:214-225) *)
var_expr(c, e) ==
    IF e.name \in DOMAIN c.local_def
    THEN Fail(c, "is already a peek name")
    ELSE LET var_ptr == c.var_count
             c1 == [c EXCEPT !.var_count = @ + 1,
                             !.var_def = MapInsert(@, e.name, var_ptr)]
             c2 == simple_seq(c1, e.value)
         IN IF c2.err # "" THEN c2
            ELSE Emit(c2, Instr("GlobalStore", Some(var_ptr)))

(* the loop over expr.names.iter().rev() of peek_expr (ir.rs:191-197):     *)
(* names is what is left of the reversed list, shadow the pairs saved so far*)
RECURSIVE peek_bind(_, _, _)
peek_bind(c, names, shadow) ==
    IF names = <<>> THEN [c |-> c, shadow_names |-> shadow]
    ELSE LET e == Head(names)
             local_count == MapLen(c.local_def)
         IN IF e \in DOMAIN c.var_def
            THEN [c |-> Fail(c, "is already a variable name"),
                  shadow_names |-> shadow]
            ELSE peek_bind(
                   [c EXCEPT !.local_def = MapInsert(@, e, local_count)],
                   Tail(names),
                   IF e \in DOMAIN c.local_def
                   THEN Append(shadow, <<e, c.local_def[e]>>)
                   ELSE shadow)

(* for e in expr.names.iter() { self.local_def.remove(e); } (ir.rs:203-205) *)
RECURSIVE peek_remove(_, _)
peek_remove(m, names) ==
    IF names = <<>> THEN m
    ELSE peek_remove(MapRemove(m, Head(names)), Tail(names))

(* for (name, pos) in shadow_names { self.local_def.insert(name, pos); }   *)
(* (ir.rs:206-210)                                                         *)
RECURSIVE peek_restore(_, _)
peek_restore(m, shadow) ==
    IF shadow = <<>> THEN m
    ELSE peek_restore(MapInsert(m, Head(shadow)[1], Head(shadow)[2]),
                      Tail(shadow))

----------------------------------------------------------------------------
(* The compiler as a state machine.                                        *)

BlockTags == {"If", "Whlie", "Var", "Peek"}

Top == frames[Len(frames)]

(* the iterator the running handler takes its next expression from: the    *)
(* program iterator in parse (ir.rs:167), else the innermost block's list  *)
HasNext == IF frames = <<>> THEN program # <<>> ELSE Top.iter # <<>>
NextExpr == IF frames = <<>> THEN Head(program) ELSE Head(Top.iter)
Taken == IF frames = <<>> THEN frames
         ELSE [frames EXCEPT ![Len(frames)].iter = Tail(@)]
TakeProgram == program' = (IF frames = <<>> THEN Tail(program) ELSE program)

Pop1(s) == SubSeq(s, 1, Len(s) - 1)

(* the fields of c become the compiler's fields *)
Commit(c) ==
    /\ instrs' = c.instrs
    /\ consts' = c.consts
    /\ var_def' = c.var_def
    /\ local_def' = c.local_def
    /\ var_count' = c.var_count

(* `?`: the error leaves every active handler and parse returns it; a      *)
(* panic leaves them too, and parse returns nothing                        *)
Raise(msg) ==
    /\ result' = (IF msg = Panic THEN "panic" ELSE "err")
    /\ error' = (IF msg = Panic THEN error ELSE msg)
    /\ frames' = <<>>

Compiling == mode # "vm" /\ result = "running"

(* a call of IrParser::parse (ir.rs:166) *)
ParseCall ==
    /\ mode \in {"compile", "compile_run"}
    /\ result \in {"new", "ok", "err"}
    /\ calls < (IF mode = "compile" THEN MaxCalls ELSE 1)
    /\ result' = "running"
    /\ calls' = calls + 1
    /\ UNCHANGED <<pvars, lvars, mode, source, program, instrs, consts, var_def, local_def, var_count,
                   frames, error, bytecode, last_peek, mvars>>

(* expr -> simple_expr (ir.rs:183), reached from parse or from a block *)
SimpleExpr ==
    /\ Compiling
    /\ HasNext
    /\ NextExpr.tag \notin BlockTags
    /\ LET c == simple_expr(CState, NextExpr)
       IN /\ Commit(c)
          /\ IF c.err # "" THEN Raise(c.err)
             ELSE frames' = Taken /\ UNCHANGED <<result, error>>
    /\ TakeProgram
    /\ UNCHANGED <<pvars, lvars, mode, source, bytecode, calls, last_peek, mvars>>

(* expr -> var_expr (ir.rs:181, 214-225) *)
VarExpr ==
    /\ Compiling
    /\ HasNext
    /\ NextExpr.tag = "Var"
    /\ LET c == var_expr(CState, NextExpr)
       IN /\ Commit(c)
          /\ IF c.err # "" THEN Raise(c.err)
             ELSE frames' = Taken /\ UNCHANGED <<result, error>>
    /\ TakeProgram
    /\ UNCHANGED <<pvars, lvars, mode, source, bytecode, calls, last_peek, mvars>>

(* expr -> if_expr (ir.rs:179, 244): the call starts walking expr.cond *)
IfEnter ==
    /\ Compiling
    /\ HasNext
    /\ NextExpr.tag = "If"
    /\ frames' = Append(Taken, [fn |-> "if_expr", pc |-> "cond",
                                iter |-> NextExpr.cond, expr |-> NextExpr,
                                offset |-> 0, offset2 |-> 0])
    /\ TakeProgram
    /\ UNCHANGED <<pvars, lvars, mode, source, instrs, consts, var_def, local_def, var_count, result,
                   error, bytecode, calls, last_peek, mvars>>

(* if_expr after the condition (ir.rs:248-250) *)
IfCondDone ==
    /\ Compiling
    /\ frames # <<>>
    /\ Top.fn = "if_expr" /\ Top.pc = "cond" /\ Top.iter = <<>>
    /\ LET offset == Len(instrs)
       IN /\ instrs' = Append(instrs, Instr("JmpIf", None))
          /\ frames' = [frames EXCEPT ![Len(frames)] =
                          [@ EXCEPT !.pc = "if_branch",
                                    !.iter = Top.expr.if_branch,
                                    !.offset = offset]]
    /\ UNCHANGED <<pvars, lvars, mode, source, program, consts, var_def, local_def, var_count, result,
                   error, bytecode, calls, last_peek, mvars>>

(* mutant: with an else-branch the JmpIf is sent to the Jmp that closes   *)
(* the true-branch                                                        *)
if_branch_done_mutant(is, f) ==
    IF IsSome(f.expr.else_branch)
    THEN LET offset2 == Len(is)
             is1 == Append(is, Instr("Jmp", None))
         IN [instrs |-> SetAt(is1, f.offset, Instr("JmpIf", Some(offset2))),
             offset2 |-> offset2]
    ELSE LET curr_len == Len(is)
         IN [instrs |-> SetAt(is, f.offset, Instr("JmpIf", Some(curr_len))),
             offset2 |-> 0]

(* if_expr after the true-branch (ir.rs:253-268) *)
if_branch_done(is, f) ==
    IF IsSome(f.expr.else_branch)
    THEN LET offset2 == Len(is)
             is1 == Append(is, Instr("Jmp", None))
         IN [instrs |-> SetAt(is1, f.offset, Instr("JmpIf", Some(offset2 + 1))),
             offset2 |-> offset2]
    ELSE LET curr_len == Len(is)
         IN [instrs |-> SetAt(is, f.offset, Instr("JmpIf", Some(curr_len))),
             offset2 |-> 0]

IfBranchDone ==
    /\ Compiling
    /\ frames # <<>>
    /\ Top.fn = "if_expr" /\ Top.pc = "if_branch" /\ Top.iter = <<>>
    /\ LET r == if_branch_done(instrs, Top)
       IN /\ instrs' = r.instrs
          /\ frames' = IF IsSome(Top.expr.else_branch)
                       THEN [frames EXCEPT ![Len(frames)] =
                               [@ EXCEPT !.pc = "else_branch",
                                         !.iter = Unwrap(Top.expr.else_branch),
                                         !.offset2 = r.offset2]]
                       ELSE Pop1(frames)
    /\ UNCHANGED <<pvars, lvars, mode, source, program, consts, var_def, local_def, var_count, result,
                   error, bytecode, calls, last_peek, mvars>>

(* mutant: the patch after the else-branch goes to the index of the JmpIf *)
if_else_done_mutant(is, f) ==
    LET curr_len == Len(is)
    IN SetAt(is, f.offset, Instr("Jmp", Some(curr_len)))

(* if_expr after the else-branch (ir.rs:261-263) *)
if_else_done(is, f) ==
    LET curr_len == Len(is)
    IN SetAt(is, f.offset2, Instr("Jmp", Some(curr_len)))

IfElseDone ==
    /\ Compiling
    /\ frames # <<>>
    /\ Top.fn = "if_expr" /\ Top.pc = "else_branch" /\ Top.iter = <<>>
    /\ instrs' = if_else_done(instrs, Top)
    /\ frames' = Pop1(frames)
    /\ UNCHANGED <<pvars, lvars, mode, source, program, consts, var_def, local_def, var_count, result,
                   error, bytecode, calls, last_peek, mvars>>

(* expr -> while_expr (ir.rs:180, 227-228) *)
WhileEnter ==
    /\ Compiling
    /\ HasNext
    /\ NextExpr.tag = "Whlie"
    /\ frames' = Append(Taken, [fn |-> "while_expr", pc |-> "cond",
                                iter |-> NextExpr.cond, expr |-> NextExpr,
                                whileaddrs |-> Len(instrs), ifaddrs |-> 0])
    /\ TakeProgram
    /\ UNCHANGED <<pvars, lvars, mode, source, instrs, consts, var_def, local_def, var_count, result,
                   error, bytecode, calls, last_peek, mvars>>

(* while_expr after the condition (ir.rs:232-233) *)
WhileCondDone ==
    /\ Compiling
    /\ frames # <<>>
    /\ Top.fn = "while_expr" /\ Top.pc = "cond" /\ Top.iter = <<>>
    /\ LET ifaddrs == Len(instrs)
       IN /\ instrs' = Append(instrs, Instr("JmpIf", None))
          /\ frames' = [frames EXCEPT ![Len(frames)] =
                          [@ EXCEPT !.pc = "while_block",
                                    !.iter = Top.expr.while_block,
                                    !.ifaddrs = ifaddrs]]
    /\ UNCHANGED <<pvars, lvars, mode, source, program, consts, var_def, local_def, var_count, result,
                   error, bytecode, calls, last_peek, mvars>>

(* mutant: the exit is patched before the backward Jmp is counted, and   *)
(* the Jmp goes one past the entry                                        *)
while_block_done_mutant(is, f) ==
    LET is1 == Append(is, Instr("Jmp", Some(f.whileaddrs)))
        curr_len == Len(is1)
    IN SetAt(is1, f.ifaddrs, Instr("JmpIf", Some(curr_len + 1)))

(* mutant: the backward Jmp goes to the JmpIf, not to the loop entry *)
while_block_done_back_mutant(is, f) ==
    LET is1 == Append(is, Instr("Jmp", Some(f.ifaddrs)))
        curr_len == Len(is1)
    IN SetAt(is1, f.ifaddrs, Instr("JmpIf", Some(curr_len)))

(* while_expr after the body (ir.rs:237-241) *)
while_block_done(is, f) ==
    LET is1 == Append(is, Instr("Jmp", Some(f.whileaddrs)))
        curr_len == Len(is1)
    IN SetAt(is1, f.ifaddrs, Instr("JmpIf", Some(curr_len)))

WhileBlockDone ==
    /\ Compiling
    /\ frames # <<>>
    /\ Top.fn = "while_expr" /\ Top.pc = "while_block" /\ Top.iter = <<>>
    /\ instrs' = while_block_done(instrs, Top)
    /\ frames' = Pop1(frames)
    /\ UNCHANGED <<pvars, lvars, mode, source, program, consts, var_def, local_def, var_count, result,
                   error, bytecode, calls, last_peek, mvars>>

(* peek_expr up to the body (ir.rs:187-197) *)
peek_enter(c, e) ==
    LET names_len == Len(e.names)
        c1 == Emit(c, Instr("Bind", Some(names_len)))
    IN peek_bind(c1, Reverse(e.names), <<>>)

(* expr -> peek_expr (ir.rs:182) *)
PeekEnter ==
    /\ Compiling
    /\ HasNext
    /\ NextExpr.tag = "Peek"
    /\ LET r == peek_enter(CState, NextExpr)
       IN /\ Commit(r.c)
          /\ IF r.c.err # "" THEN Raise(r.c.err)
             ELSE /\ frames' = Append(Taken,
                        [fn |-> "peek_expr", pc |-> "body",
                         iter |-> NextExpr.body, expr |-> NextExpr,
                         names_len |-> Len(NextExpr.names),
                         shadow_names |-> r.shadow_names,
                         entry_local_def |-> local_def])
                  /\ UNCHANGED <<result, error>>
    /\ TakeProgram
    /\ UNCHANGED <<pvars, lvars, mode, source, bytecode, calls, last_peek, mvars>>

(* mutant: Unbind releases one binding more than Bind made *)
peek_exit_mutant(c, f) ==
    LET c1 == Emit(c, Instr("Unbind", Some(f.names_len + 1)))
        removed == peek_remove(c1.local_def, f.expr.names)
    IN [c1 EXCEPT !.local_def =
            IF Len(f.shadow_names) # 0
            THEN peek_restore(removed, f.shadow_names)
            ELSE removed]

(* peek_expr after the body (ir.rs:201-211) *)
peek_exit(c, f) ==
    LET c1 == Emit(c, Instr("Unbind", Some(f.names_len)))
        removed == peek_remove(c1.local_def, f.expr.names)
    IN [c1 EXCEPT !.local_def =
            IF Len(f.shadow_names) # 0
            THEN peek_restore(removed, f.shadow_names)
            ELSE removed]

PeekBodyDone ==
    /\ Compiling
    /\ frames # <<>>
    /\ Top.fn = "peek_expr" /\ Top.iter = <<>>
    /\ LET c == peek_exit(CState, Top)
       IN /\ Commit(c)
          /\ last_peek' = [names |-> Top.expr.names,
                           before |-> Top.entry_local_def,
                           after |-> c.local_def,
                           n |-> last_peek.n + 1]
    /\ frames' = Pop1(frames)
    /\ UNCHANGED <<pvars, lvars, mode, source, program, result, error, bytecode, calls, mvars>>

(* parse: the iterator is exhausted, Ok(Bytecode) (ir.rs:171-174) *)
ParseOk ==
    /\ Compiling
    /\ frames = <<>>
    /\ program = <<>>
    /\ result' = "ok"
    /\ bytecode' = [program |-> instrs, consts |-> consts]
    /\ UNCHANGED <<pvars, lvars, mode, source, program, instrs, consts, var_def, local_def, var_count,
                   frames, error, calls, last_peek, mvars>>

CompilerNext ==
    \/ ParseCall
    \/ SimpleExpr
    \/ VarExpr
    \/ IfEnter
    \/ IfCondDone
    \/ IfBranchDone
    \/ IfElseDone
    \/ WhileEnter
    \/ WhileCondDone
    \/ WhileBlockDone
    \/ PeekEnter
    \/ PeekBodyDone
    \/ ParseOk

----------------------------------------------------------------------------
(* CHSVM.  A machine is the record m of its mutable fields; a step returns *)
(* the machine after it and res: "Ok", the Trap, or "panic" (todo!()).     *)

(* type Word = i64 (vm.rs:3).  A word is held as the WordBytes bytes of   *)
(* i64::to_le_bytes: two's complement, the least significant byte first.  *)
WordBytes == 8
Byte == 256

RECURSIVE to_le_bytes(_, _)
to_le_bytes(n, k) ==
    IF k = 0 THEN <<>> ELSE <<n % Byte>> \o to_le_bytes(n \div Byte, k - 1)

(* the word of an integer written in the program text or the model *)
Word(n) == to_le_bytes(n, WordBytes)

(* i64::MIN and i64::MAX *)
I64Min == [i \in 1..WordBytes |-> IF i = WordBytes THEN Byte \div 2 ELSE 0]
I64Max ==
    [i \in 1..WordBytes |-> IF i = WordBytes THEN Byte \div 2 - 1 ELSE Byte - 1]

is_negative(w) == w[Len(w)] >= Byte \div 2
Zero(k) == [i \in 1..k |-> 0]
Not(w) == [i \in 1..Len(w) |-> Byte - 1 - w[i]]

(* a + b + c from byte i on, c the carry into byte i; s is the sum at    *)
(* byte i, evaluated once                                                *)
RECURSIVE AddFrom(_, _, _, _)
AddFrom(a, b, i, c) ==
    IF i > Len(a) THEN <<>>
    ELSE CHOOSE v \in {<<s % Byte>> \o AddFrom(a, b, i + 1, s \div Byte) :
                        s \in {a[i] + b[i] + c}} : TRUE

(* a + b + c on bytes of equal length, the carry out of the top dropped;  *)
(* x and y are a and b, evaluated once                                    *)
AddCarry(a, b, c) ==
    CHOOSE s \in {AddFrom(x, y, 1, c) : x \in {a}, y \in {b}} : TRUE

wrapping_add(a, b) == AddCarry(a, b, 0)
wrapping_sub(a, b) == AddCarry(a, Not(b), 1)
wrapping_neg(a) == AddCarry(Not(a), Zero(Len(a)), 1)

(* the sum of the a[j] * b[k + 1 - j] for j from i to k: what the bytes   *)
(* of a and b give to byte k of a * b                                     *)
RECURSIVE ColumnSum(_, _, _, _)
ColumnSum(a, b, k, i) ==
    IF i > k THEN 0 ELSE a[i] * b[k + 1 - i] + ColumnSum(a, b, k, i + 1)

(* a * b from byte k on, c the carry into byte k; s is the sum at byte   *)
(* k, evaluated once                                                     *)
RECURSIVE MulFrom(_, _, _, _)
MulFrom(a, b, k, c) ==
    IF k > Len(a) THEN <<>>
    ELSE CHOOSE v \in {<<s % Byte>> \o MulFrom(a, b, k + 1, s \div Byte) :
                        s \in {ColumnSum(a, b, k, 1) + c}} : TRUE

(* a * b on bytes of equal length, cut to that length *)
MulBytes(a, b) ==
    CHOOSE p \in {MulFrom(x, y, 1, 0) : x \in {a}, y \in {b}} : TRUE

wrapping_mul(a, b) == MulBytes(a, b)

(* the same value in k bytes *)
SignExtend(w, k) ==
    w \o [i \in 1..(k - Len(w)) |-> IF is_negative(w) THEN Byte - 1 ELSE 0]

(* a < b for bytes read as unsigned numbers, decided from byte i down *)
RECURSIVE ULessFrom(_, _, _)
ULessFrom(a, b, i) ==
    IF i = 0 THEN FALSE
    ELSE IF a[i] # b[i] THEN a[i] < b[i]
    ELSE ULessFrom(a, b, i - 1)

ULess(a, b) == \E x \in {a}, y \in {b} : ULessFrom(x, y, Len(x))

(* a < b on i64 *)
Less(a, b) ==
    \E x \in {a}, y \in {b} :
        IF is_negative(x) # is_negative(y) THEN is_negative(x) ELSE ULess(x, y)

(* bit i of w, bit 0 the lowest *)
BitAt(w, i) == (w[(i \div 8) + 1] \div (2 ^ (i % 8))) % 2

(* one step of the long division of n by d: bit i of n is brought down   *)
(* to the remainder, which gives r1, and d taken off it where it fits    *)
UDivBit(n, d, i, qr) ==
    CHOOSE v \in
        {IF ULess(r1, d)
         THEN [q |-> AddCarry(qr.q, qr.q, 0), r |-> r1]
         ELSE [q |-> AddCarry(qr.q, qr.q, 1), r |-> wrapping_sub(r1, d)] :
            r1 \in {AddCarry(qr.r, qr.r, BitAt(n, i))}} : TRUE

(* the steps of the bits hi down to lo, the upper half of them first; s   *)
(* is what the upper half leaves                                          *)
RECURSIVE UDivBits(_, _, _, _, _)
UDivBits(n, d, hi, lo, qr) ==
    IF hi < lo THEN qr
    ELSE IF hi = lo THEN UDivBit(n, d, hi, qr)
    ELSE CHOOSE v \in
            {UDivBits(n, d, (hi + lo + 1) \div 2 - 1, lo, s) :
                s \in {UDivBits(n, d, hi, (hi + lo + 1) \div 2, qr)}} : TRUE

(* the number of bytes of n up to its highest byte that is not 0 *)
Significant(n) ==
    IF \A i \in 1..Len(n) : n[i] = 0 THEN 0
    ELSE CHOOSE i \in 1..Len(n) : n[i] # 0 /\ \A j \in (i + 1)..Len(n) : n[j] = 0

(* n / d for bytes read as unsigned numbers, d # 0: the long division     *)
(* from the highest significant byte of n down                            *)
UDiv(n, d) ==
    CHOOSE q \in {UDivBits(x, y, 8 * Significant(x) - 1, 0,
                           [q |-> Zero(Len(x)), r |-> Zero(Len(x))]).q :
                    x \in {n}, y \in {d}} : TRUE

unsigned_abs(w) == IF is_negative(w) THEN wrapping_neg(w) ELSE w

(* the quotient truncated towards zero, b # 0 *)
wrapping_div(a, b) ==
    IF is_negative(a) # is_negative(b)
    THEN wrapping_neg(UDiv(unsigned_abs(a), unsigned_abs(b)))
    ELSE UDiv(unsigned_abs(a), unsigned_abs(b))

(* i64::checked_add, checked_sub, checked_mul, checked_div: None where    *)
(* the result is not an i64                                               *)
checked_add(a, b) ==
    LET s == wrapping_add(a, b)
    IN IF is_negative(a) = is_negative(b) /\ is_negative(s) # is_negative(a)
       THEN None ELSE Some(s)

checked_sub(a, b) ==
    LET s == wrapping_sub(a, b)
    IN IF is_negative(a) # is_negative(b) /\ is_negative(s) # is_negative(a)
       THEN None ELSE Some(s)

checked_mul(a, b) ==
    LET p == wrapping_mul(a, b)
    IN IF MulBytes(SignExtend(a, 2 * Len(a)), SignExtend(b, 2 * Len(b)))
            # SignExtend(p, 2 * Len(p))
       THEN None ELSE Some(p)

checked_div(a, b) ==
    IF b = Zero(Len(b)) \/ (a = I64Min /\ b = Word(-1)) THEN None
    ELSE Some(wrapping_div(a, b))

(* the operators +, - and * on i64: an overflow panics in a build with    *)
(* overflow checks (debug) and wraps in one without (release); None is    *)
(* the panic.  x and y are the operands, evaluated once.                  *)
Overflowing(checked, wrapped, checks) ==
    IF IsSome(checked) THEN checked
    ELSE IF checks THEN None ELSE Some(wrapped)

WordAdd(a, b, checks) ==
    CHOOSE v \in {Overflowing(checked_add(x, y), wrapping_add(x, y), checks) :
                    x \in {a}, y \in {b}} : TRUE

WordSub(a, b, checks) ==
    CHOOSE v \in {Overflowing(checked_sub(x, y), wrapping_sub(x, y), checks) :
                    x \in {a}, y \in {b}} : TRUE

WordMul(a, b, checks) ==
    CHOOSE v \in {Overflowing(checked_mul(x, y), wrapping_mul(x, y), checks) :
                    x \in {a}, y \in {b}} : TRUE

(* the operator / on i64 with a divisor that is not 0: i64::MIN / -1      *)
(* panics in every build; None is the panic                               *)
WordDiv(a, b) == CHOOSE v \in {checked_div(x, y) : x \in {a}, y \in {b}} : TRUE

(* bool as i64 *)
AsWord(b) == Word(IF b THEN 1 ELSE 0)

Ret(m, res) == [m |-> m, res |-> res]

(* mutant: a pop leaves the counter as it is *)
pop_stack_mutant(m) ==
    IF m.stack # <<>>
    THEN [ok |-> TRUE, trap |-> "Ok", v |-> m.stack[Len(m.stack)],
          m |-> [m EXCEPT !.stack = Pop1(@)]]
    ELSE [ok |-> FALSE, trap |-> "StackUnderflow", v |-> Word(0), m |-> m]

(* CHSVM::pop_stack (vm.rs:231-237) *)
pop_stack(m) ==
    LET m1 == IF ~(m.sp = 0) THEN [m EXCEPT !.sp = @ - 1] ELSE m
    IN IF m1.stack # <<>>
       THEN [ok |-> TRUE, trap |-> "Ok", v |-> m1.stack[Len(m1.stack)],
             m |-> [m1 EXCEPT !.stack = Pop1(@)]]
       ELSE [ok |-> FALSE, trap |-> "StackUnderflow", v |-> Word(0), m |-> m1]

(* mutant: the capacity test is off by one *)
push_stack_mutant(m, value) ==
    IF m.sp > STACK_CAPACITY
    THEN [ok |-> FALSE, trap |-> "StackOverflow", m |-> m]
    ELSE [ok |-> TRUE, trap |-> "Ok",
          m |-> [m EXCEPT !.sp = @ + 1, !.stack = Append(@, value)]]

(* CHSVM::push_stack (vm.rs:239-244); the Vec was made with_capacity(1024) *)
(* and never grows, so stack.capacity() is STACK_CAPACITY                  *)
push_stack(m, value) ==
    IF (m.sp + 1) > STACK_CAPACITY
    THEN [ok |-> FALSE, trap |-> "StackOverflow", m |-> m]
    ELSE [ok |-> TRUE, trap |-> "Ok",
          m |-> [m EXCEPT !.sp = @ + 1, !.stack = Append(@, value)]]

(* let x = self.pop_stack()?; let y = self.pop_stack()?; : first is the   *)
(* value popped first (the top), second the one popped after it           *)
pop_two(m) ==
    LET a == pop_stack(m)
    IN IF ~a.ok
       THEN [ok |-> FALSE, trap |-> a.trap, first |-> Word(0), second |-> Word(0),
             m |-> a.m]
       ELSE LET b == pop_stack(a.m)
            IN [ok |-> b.ok, trap |-> b.trap, first |-> a.v, second |-> b.v,
                m |-> b.m]

(* the shape shared by the two-operand arms: the length test, the two     *)
(* pops p, the value computed from them (None: the computation panics),   *)
(* one push of it                                                         *)
Binary(m, p, value) ==
    IF Len(m.stack) >= 2
    THEN IF ~p.ok THEN Ret(p.m, p.trap)
         ELSE IF ~IsSome(value) THEN Ret(p.m, "panic")
         ELSE LET q == push_stack(p.m, Unwrap(value)) IN Ret(q.m, q.trap)
    ELSE Ret(m, "StackUnderflow")

(* InstrKind::Push (vm.rs:39-46) *)
ExecPush(m, instr) ==
    IF ~IsSome(instr.operands) THEN Ret(m, "OperandNotProvided")
    ELSE LET q == push_stack(m, Word(Unwrap(instr.operands))) IN Ret(q.m, q.trap)

(* mutant: the operand is an absolute address from the bottom of the stack *)
ExecDup_mutant(m, instr, proglen) ==
    IF ~IsSome(instr.operands) THEN Ret(m, "OperandNotProvided")
    ELSE LET addr == Unwrap(instr.operands)
         IN IF addr < 0 \/ addr > proglen THEN Ret(m, "StackOverflow")
            ELSE IF m.sp - addr <= 0 THEN Ret(m, "StackUnderflow")
            ELSE LET value == m.stack[addr + 1]
                     q == push_stack(m, value)
                 IN Ret(q.m, q.trap)

(* InstrKind::Dup (vm.rs:47-77); a negative addr as usize is huge *)
ExecDup(m, instr, proglen) ==
    IF ~IsSome(instr.operands) THEN Ret(m, "OperandNotProvided")
    ELSE LET addr == Unwrap(instr.operands)
         IN IF addr < 0 \/ addr > proglen THEN Ret(m, "StackOverflow")
            ELSE IF m.sp - addr <= 0 THEN Ret(m, "StackUnderflow")
            ELSE IF m.sp - 1 - addr >= Len(m.stack) THEN Ret(m, "panic")
            ELSE LET value == m.stack[m.sp - 1 - addr + 1]
                     q == push_stack(m, value)
                 IN Ret(q.m, q.trap)

(* InstrKind::Swap (vm.rs:78-87) *)
ExecSwap(m) ==
    IF Len(m.stack) >= 2
    THEN LET p == pop_two(m)
         IN IF ~p.ok THEN Ret(p.m, p.trap)
            ELSE LET op_1 == p.first
                     op_2 == p.second
                     q1 == push_stack(p.m, op_1)
                 IN IF ~q1.ok THEN Ret(q1.m, q1.trap)
                    ELSE LET q2 == push_stack(q1.m, op_2)
                         IN Ret(q2.m, q2.trap)
    ELSE Ret(m, "StackUnderflow")

(* InstrKind::Pop (vm.rs:88-94) *)
ExecPop(m) ==
    IF Len(m.stack) >= 1
    THEN LET p == pop_stack(m) IN Ret(p.m, p.trap)
    ELSE Ret(m, "StackUnderflow")

(* InstrKind::Add (vm.rs:95-103) *)
ExecAdd(m, checks) ==
    LET p == pop_two(m)
        op_1 == p.first
        op_2 == p.second
    IN Binary(m, p, WordAdd(op_1, op_2, checks))

(* InstrKind::Minus (vm.rs:104-112) *)
ExecMinus(m, checks) ==
    LET p == pop_two(m)
        op_2 == p.first
        op_1 == p.second
    IN Binary(m, p, WordSub(op_1, op_2, checks))

(* InstrKind::Mul (vm.rs:113-121) *)
ExecMul(m, checks) ==
    LET p == pop_two(m)
        op_1 == p.first
        op_2 == p.second
    IN Binary(m, p, WordMul(op_1, op_2, checks))

(* InstrKind::Div (vm.rs:122-131): the zero test follows the two pops;  *)
(* op_1 / op_2 (vm.rs:127) panics for i64::MIN / -1                      *)
ExecDiv(m) ==
    IF Len(m.stack) >= 2
    THEN LET p == pop_two(m)
         IN IF ~p.ok THEN Ret(p.m, p.trap)
            ELSE LET op_2 == p.first
                     op_1 == p.second
                 IN IF op_2 = Word(0) THEN Ret(p.m, "DivByZero")
                    ELSE LET value == WordDiv(op_1, op_2)
                         IN IF ~IsSome(value) THEN Ret(p.m, "panic")
                            ELSE LET q == push_stack(p.m, Unwrap(value))
                                 IN Ret(q.m, q.trap)
    ELSE Ret(m, "StackUnderflow")

(* mutant: one index more is taken for a target of the program *)
AddrsOutOfBounds_mutant(addrs, proglen) == addrs < 0 \/ addrs > proglen + 1

(* the target test of Jmp and JmpIf (vm.rs:137, 149) *)
AddrsOutOfBounds(addrs, proglen) == addrs < 0 \/ addrs > proglen

(* mutant: the pointer is advanced after the jump has set it *)
ExecJmp_mutant(m, instr, proglen) ==
    IF ~IsSome(instr.operands) THEN Ret(m, "panic")
    ELSE LET addrs == Unwrap(instr.operands)
         IN IF AddrsOutOfBounds(addrs, proglen)
            THEN Ret(m, "AddersOutOfBounds")
            ELSE Ret([m EXCEPT !.ip = addrs + 1], "Ok")

(* InstrKind::Jmp (vm.rs:132-142) *)
ExecJmp(m, instr, proglen) ==
    IF ~IsSome(instr.operands) THEN Ret(m, "panic")
    ELSE LET addrs == Unwrap(instr.operands)
         IN IF AddrsOutOfBounds(addrs, proglen)
            THEN Ret(m, "AddersOutOfBounds")
            ELSE Ret([m EXCEPT !.ip = addrs], "Ok")

(* mutant: every value but 0 is taken for true *)
ExecJmpIf_mutant(m, instr, proglen) ==
    LET p == pop_stack(m)
    IN IF ~p.ok THEN Ret(p.m, p.trap)
       ELSE LET op_1 == p.v
            IN IF ~IsSome(instr.operands) THEN Ret(p.m, "panic")
               ELSE LET addrs == Unwrap(instr.operands)
                    IN IF AddrsOutOfBounds(addrs, proglen)
                       THEN Ret(p.m, "AddersOutOfBounds")
                       ELSE IF op_1 # Word(0)
                            THEN Ret([p.m EXCEPT !.ip = addrs], "Ok")
                            ELSE Ret(p.m, "Ok")

(* InstrKind::JmpIf (vm.rs:143-154) *)
ExecJmpIf(m, instr, proglen) ==
    LET p == pop_stack(m)
    IN IF ~p.ok THEN Ret(p.m, p.trap)
       ELSE LET op_1 == p.v
            IN IF ~IsSome(instr.operands) THEN Ret(p.m, "panic")
               ELSE LET addrs == Unwrap(instr.operands)
                    IN IF AddrsOutOfBounds(addrs, proglen)
                       THEN Ret(p.m, "AddersOutOfBounds")
                       ELSE IF op_1 = Word(1)
                            THEN Ret([p.m EXCEPT !.ip = addrs], "Ok")
                            ELSE Ret(p.m, "Ok")

(* InstrKind::Eq (vm.rs:155-163) *)
ExecEq(m) ==
    LET p == pop_two(m)
        op_1 == p.first
        op_2 == p.second
    IN Binary(m, p, Some(AsWord(op_1 = op_2)))

(* InstrKind::Gt (vm.rs:164-172) *)
ExecGt(m) ==
    LET p == pop_two(m)
        op_2 == p.first
        op_1 == p.second
    IN Binary(m, p, Some(AsWord(Less(op_1, op_2))))

(* InstrKind::Gte (vm.rs:173-181) *)
ExecGte(m) ==
    LET p == pop_two(m)
        op_2 == p.first
        op_1 == p.second
    IN Binary(m, p, Some(AsWord(~Less(op_2, op_1))))

(* InstrKind::Lt (vm.rs:182-190) *)
ExecLt(m) ==
    LET p == pop_two(m)
        op_2 == p.first
        op_1 == p.second
    IN Binary(m, p, Some(AsWord(Less(op_2, op_1))))

(* InstrKind::Lte (vm.rs:191-199) *)
ExecLte(m) ==
    LET p == pop_two(m)
        op_2 == p.first
        op_1 == p.second
    IN Binary(m, p, Some(AsWord(~Less(op_1, op_2))))

(* InstrKind::Print (vm.rs:201-208): println!("Output: {}", value) *)
ExecPrint(m) ==
    IF Len(m.stack) >= 1
    THEN LET p == pop_stack(m)
         IN IF ~p.ok THEN Ret(p.m, p.trap)
            ELSE Ret([p.m EXCEPT !.output = Append(@, p.v)], "Ok")
    ELSE Ret(m, "StackUnderflow")

(* InstrKind::Debug (vm.rs:209-212): a dump of the machine, which is not  *)
(* an `Output:` line; InstrKind::Nop (vm.rs:213)                          *)
ExecNop(m) == Ret(m, "Ok")

(* InstrKind::Halt (vm.rs:214-217) *)
ExecHalt(m) == Ret([m EXCEPT !.is_halted = TRUE], "Ok")

(* Const(i): the value at index i of the constant pool is pushed *)
ExecConst(m, instr, pool) ==
    IF ~IsSome(instr.operands) THEN Ret(m, "OperandNotProvided")
    ELSE LET q == push_stack(m, Word(pool[Unwrap(instr.operands) + 1].v))
         IN Ret(q.m, q.trap)

(* the slot table grown with zeros to hold slot *)
GrowTo(g, slot) ==
    [i \in 1..(IF Len(g) > slot THEN Len(g) ELSE slot + 1) |->
        IF i <= Len(g) THEN g[i] ELSE Word(0)]

(* GlobalStore(slot): the popped value is written to the slot *)
ExecGlobalStore(m, instr) ==
    IF ~IsSome(instr.operands) THEN Ret(m, "OperandNotProvided")
    ELSE LET p == pop_stack(m)
             slot == Unwrap(instr.operands)
         IN IF ~p.ok THEN Ret(p.m, p.trap)
            ELSE Ret([p.m EXCEPT !.globals =
                        [GrowTo(@, slot) EXCEPT ![slot + 1] = p.v]], "Ok")

(* GlobalLoad(slot): the value of the slot is pushed *)
ExecGlobalLoad(m, instr) ==
    IF ~IsSome(instr.operands) THEN Ret(m, "OperandNotProvided")
    ELSE LET slot == Unwrap(instr.operands)
             g == GrowTo(m.globals, slot)
             q == push_stack([m EXCEPT !.globals = g], g[slot + 1])
         IN Ret(q.m, q.trap)

(* Buildin(id): print (4) and println (3) pop one value and write it *)
ExecBuildin(m, instr) ==
    IF ~IsSome(instr.operands) THEN Ret(m, "OperandNotProvided")
    ELSE IF Unwrap(instr.operands) \in {BuildinId("Print"), BuildinId("Println")}
         THEN ExecPrint(m)
         ELSE Ret(m, "Unsupported")

(* mutant: the end of the program is a clean stop *)
ExecProgramEnd_mutant(m) == Ret([m EXCEPT !.is_halted = TRUE], "Ok")

(* self.ip > self.program.len(): Err(ProgramEndWithoutHalt) (vm.rs:34-36) *)
ExecProgramEnd(m) == Ret(m, "ProgramEndWithoutHalt")

(* the opcodes of vm.rs, and those only the compiler's vocabulary has *)
InstrKinds == {"Push", "Dup", "Swap", "Pop", "Add", "Minus", "Mul", "Div",
               "Jmp", "JmpIf", "Eq", "Gt", "Gte", "Lt", "Lte", "Print",
               "Debug", "Nop", "Halt"}
BytecodeKinds == {"Const", "GlobalStore", "GlobalLoad", "Buildin"}

----------------------------------------------------------------------------
(* The machine as a state machine.                                         *)

Machine ==
    [stack |-> stack, sp |-> sp, ip |-> ip, is_halted |-> is_halted,
     globals |-> globals, output |-> output]

(* the kind of the instruction the next call will fetch, "end" past the end *)
Fetched ==
    IF ip + 1 > Len(vm_program) THEN "end" ELSE vm_program[ip + 1].kind

(* the output stays within the model's bounds *)
InBounds(m) ==
    /\ Len(m.output) <= MaxOutput

(* run() calls execute_next_instr while !is_halted and stops at the first  *)
(* trap (vm.rs:222-229); a caller that single-steps may call it any time   *)
CanStep ==
    /\ mode # "compile"
    /\ vstate = "ready"
    /\ driver = "manual" => ip < Len(vm_program) + MaxPast

(* mutant: run() goes on after a trap *)
AfterStep_mutant(r) ==
    IF r.res = "panic" THEN "crashed"
    ELSE IF driver = "run" /\ r.m.is_halted THEN "done"
    ELSE "ready"

AfterStep(r) ==
    IF r.res = "panic" THEN "crashed"
    ELSE IF driver = "run" /\ (r.res # "Ok" \/ r.m.is_halted) THEN "done"
    ELSE "ready"

(* self.ip += 1 (vm.rs:33) and the instruction then fetched (vm.rs:37) *)
Advanced == [Machine EXCEPT !.ip = @ + 1]
Current == vm_program[Advanced.ip - 1 + 1]

(* what execute_next_instr returned becomes the machine's state *)
Returned(r) ==
    /\ InBounds(r.m)
    /\ stack' = r.m.stack
    /\ sp' = r.m.sp
    /\ ip' = r.m.ip
    /\ is_halted' = r.m.is_halted
    /\ globals' = r.m.globals
    /\ output' = r.m.output
    /\ vstate' = AfterStep(r)
    /\ last' = [kind |-> Fetched,
                operands |-> IF Fetched = "end" THEN None ELSE Current.operands,
                pre_stack |-> stack, pre_sp |-> sp, pre_ip |-> ip,
                res |-> r.res]
    /\ UNCHANGED <<pvars, lvars, mode, source, cvars, vm_program, vm_consts, driver,
                   overflow_checks>>

(* execute_next_instr past the end of the program (vm.rs:33-36) *)
StepProgramEnd ==
    /\ CanStep
    /\ Fetched = "end"
    /\ \E r \in {ExecProgramEnd(Advanced)} : Returned(r)

(* execute_next_instr, the arm of Push *)
StepPush ==
    /\ CanStep
    /\ Fetched = "Push"
    /\ \E r \in {ExecPush(Advanced, Current)} : Returned(r)

(* execute_next_instr, the arm of Dup *)
StepDup ==
    /\ CanStep
    /\ Fetched = "Dup"
    /\ \E r \in {ExecDup(Advanced, Current, Len(vm_program))} : Returned(r)

(* execute_next_instr, the arm of Swap *)
StepSwap ==
    /\ CanStep
    /\ Fetched = "Swap"
    /\ \E r \in {ExecSwap(Advanced)} : Returned(r)

(* execute_next_instr, the arm of Pop *)
StepPop ==
    /\ CanStep
    /\ Fetched = "Pop"
    /\ \E r \in {ExecPop(Advanced)} : Returned(r)

(* execute_next_instr, the arm of Add *)
StepAdd ==
    /\ CanStep
    /\ Fetched = "Add"
    /\ \E r \in {ExecAdd(Advanced, overflow_checks)} : Returned(r)

(* execute_next_instr, the arm of Minus *)
StepMinus ==
    /\ CanStep
    /\ Fetched = "Minus"
    /\ \E r \in {ExecMinus(Advanced, overflow_checks)} : Returned(r)

(* execute_next_instr, the arm of Mul *)
StepMul ==
    /\ CanStep
    /\ Fetched = "Mul"
    /\ \E r \in {ExecMul(Advanced, overflow_checks)} : Returned(r)

(* execute_next_instr, the arm of Div *)
StepDiv ==
    /\ CanStep
    /\ Fetched = "Div"
    /\ \E r \in {ExecDiv(Advanced)} : Returned(r)

(* execute_next_instr, the arm of Jmp *)
StepJmp ==
    /\ CanStep
    /\ Fetched = "Jmp"
    /\ \E r \in {ExecJmp(Advanced, Current, Len(vm_program))} : Returned(r)

(* execute_next_instr, the arm of JmpIf *)
StepJmpIf ==
    /\ CanStep
    /\ Fetched = "JmpIf"
    /\ \E r \in {ExecJmpIf(Advanced, Current, Len(vm_program))} : Returned(r)

(* execute_next_instr, the arm of Eq *)
StepEq ==
    /\ CanStep
    /\ Fetched = "Eq"
    /\ \E r \in {ExecEq(Advanced)} : Returned(r)

(* execute_next_instr, the arm of Gt *)
StepGt ==
    /\ CanStep
    /\ Fetched = "Gt"
    /\ \E r \in {ExecGt(Advanced)} : Returned(r)

(* execute_next_instr, the arm of Gte *)
StepGte ==
    /\ CanStep
    /\ Fetched = "Gte"
    /\ \E r \in {ExecGte(Advanced)} : Returned(r)

(* execute_next_instr, the arm of Lt *)
StepLt ==
    /\ CanStep
    /\ Fetched = "Lt"
    /\ \E r \in {ExecLt(Advanced)} : Returned(r)

(* execute_next_instr, the arm of Lte *)
StepLte ==
    /\ CanStep
    /\ Fetched = "Lte"
    /\ \E r \in {ExecLte(Advanced)} : Returned(r)

(* execute_next_instr, the arm of Print *)
StepPrint ==
    /\ CanStep
    /\ Fetched = "Print"
    /\ \E r \in {ExecPrint(Advanced)} : Returned(r)

(* execute_next_instr, the arm of Debug *)
StepDebug ==
    /\ CanStep
    /\ Fetched = "Debug"
    /\ \E r \in {ExecNop(Advanced)} : Returned(r)

(* execute_next_instr, the arm of Nop *)
StepNop ==
    /\ CanStep
    /\ Fetched = "Nop"
    /\ \E r \in {ExecNop(Advanced)} : Returned(r)

(* execute_next_instr, the arm of Halt *)
StepHalt ==
    /\ CanStep
    /\ Fetched = "Halt"
    /\ \E r \in {ExecHalt(Advanced)} : Returned(r)

(* execute_next_instr, the arm of Const *)
StepConst ==
    /\ CanStep
    /\ Fetched = "Const"
    /\ \E r \in {ExecConst(Advanced, Current, vm_consts)} : Returned(r)

(* execute_next_instr, the arm of GlobalStore *)
StepGlobalStore ==
    /\ CanStep
    /\ Fetched = "GlobalStore"
    /\ \E r \in {ExecGlobalStore(Advanced, Current)} : Returned(r)

(* execute_next_instr, the arm of GlobalLoad *)
StepGlobalLoad ==
    /\ CanStep
    /\ Fetched = "GlobalLoad"
    /\ \E r \in {ExecGlobalLoad(Advanced, Current)} : Returned(r)

(* execute_next_instr, the arm of Buildin *)
StepBuildin ==
    /\ CanStep
    /\ Fetched = "Buildin"
    /\ \E r \in {ExecBuildin(Advanced, Current)} : Returned(r)

(* the driver: CHSVM::new on the compiled bytecode (vm.rs:29-31), then run *)
LoadAndRun ==
    /\ mode = "compile_run"
    /\ result = "ok"
    /\ vstate = "off"
    /\ vm_program' = bytecode.program
    /\ vm_consts' = bytecode.consts
    /\ stack' = <<>>
    /\ sp' = 0
    /\ ip' = 0
    /\ is_halted' = FALSE
    /\ vstate' = "ready"
    /\ driver' = "run"
    /\ UNCHANGED <<pvars, lvars, mode, source, cvars, globals, output, last,
                   overflow_checks>>

MachineNext ==
    \/ StepProgramEnd
    \/ StepPush
    \/ StepDup
    \/ StepSwap
    \/ StepPop
    \/ StepAdd
    \/ StepMinus
    \/ StepMul
    \/ StepDiv
    \/ StepJmp
    \/ StepJmpIf
    \/ StepEq
    \/ StepGt
    \/ StepGte
    \/ StepLt
    \/ StepLte
    \/ StepPrint
    \/ StepDebug
    \/ StepNop
    \/ StepHalt
    \/ StepConst
    \/ StepGlobalStore
    \/ StepGlobalLoad
    \/ StepBuildin
    \/ LoadAndRun

----------------------------------------------------------------------------
(* Expression::from_literal_token (chs_ast/src/nodes.rs).  A token is its  *)
(* kind, its text (a sequence of characters) and its location.             *)

Token(kind, value, loc) == [kind |-> kind, value |-> value, loc |-> loc]
Loc(line, col) == [line |-> line, col |-> col]

(* Token::val_eq: the text of the token is the given one *)
val_eq(tok, text) == tok.value = text

(* str::parse::<bool> *)
ParseBool(text) ==
    IF text = <<"t", "r", "u", "e">> THEN Some(TRUE)
    ELSE IF text = <<"f", "a", "l", "s", "e">> THEN Some(FALSE)
    ELSE None

IntegerLiteral(loc, value) == [lit |-> "IntegerLiteral", loc |-> loc, value |-> value]
BooleanLiteral(loc, value) == [lit |-> "BooleanLiteral", loc |-> loc, value |-> value]

(* Result<Expression, CHSError>, and a call that panicked in expect() *)
LitOk(e) == [res |-> "Ok", expr |-> e]
LitErr(msg) == [res |-> "Err", msg |-> msg]
LitPanic == [res |-> "panic"]
LitPending == [res |-> "pending"]

(* Expression::from_literal_token (nodes.rs:44-65) *)
from_literal_token(tok) ==
    IF tok.kind = "Interger"
    THEN LET v == ParseI64(tok.value)
         IN IF IsSome(v) THEN LitOk(IntegerLiteral(tok.loc, Unwrap(v)))
            ELSE LitPanic
    ELSE IF tok.kind = "Keyword"
            /\ (val_eq(tok, <<"t", "r", "u", "e">>)
                  \/ val_eq(tok, <<"f", "a", "l", "s", "e">>))
    THEN LET v == ParseBool(tok.value)
         IN IF IsSome(v) THEN LitOk(BooleanLiteral(tok.loc, Unwrap(v)))
            ELSE LitPanic
    ELSE LitErr("Unsuported literal")

(* a call of from_literal_token *)
FromLiteralToken ==
    /\ mode = "literal"
    /\ literal = LitPending
    /\ literal' = from_literal_token(token)
    /\ UNCHANGED <<pvars, token, mode, source, cvars, mvars>>

----------------------------------------------------------------------------
(* The token-level parser, src/src/compiler/parser.rs.  Its Lexer, Token,  *)
(* Opcode and CHSValue are defined outside the files modelled here: a      *)
(* token is its kind and its text, the lexer is the sequence of the tokens *)
(* it has still to hand out and answers Null once that is used up.         *)

Tok(kind, value) == [kind |-> kind, value |-> value]
NullTok == Tok("Null", <<>>)

(* Lexer::next_token *)
next_token(lx) ==
    IF lx = <<>> THEN [lexer |-> lx, tok |-> NullTok]
    ELSE [lexer |-> Tail(lx), tok |-> Head(lx)]

(* CHSValue::P / CHSValue::I / CHSValue::none() *)
CHSValueP(n) == [t |-> "P", v |-> n]
CHSValueI(n) == [t |-> "I", v |-> n]
CHSValueNone == [t |-> "none", v |-> 0]

(* ParseError { message }: the format string and what it is filled with *)
ParseError(message, kind, value, pos) ==
    [message |-> message, kind |-> kind, value |-> value, pos |-> pos]
NoError == ParseError("", "", <<>>, 0)

(* Parser::new (parser.rs:44-55) *)
NewParser(toks) ==
    [lexer |-> toks, peeked |-> None, pos |-> 0, labels |-> EmptyMap,
     label_count |-> 0]

(* Result<Token, ParseError> together with the parser the call leaves *)
TokOk(p, tok) == [p |-> p, res |-> "Ok", tok |-> tok, err |-> NoError]
TokErr(p, e) == [p |-> p, res |-> "Err", tok |-> NullTok, err |-> e]

(* Parser::next (parser.rs:101-114) *)
RECURSIVE next(_)
next(p) ==
    LET tk == IF IsSome(p.peeked)
              THEN [lexer |-> p.lexer, tok |-> Unwrap(p.peeked)]
              ELSE next_token(p.lexer)
        q == [p EXCEPT !.pos = @ + 1, !.peeked = None, !.lexer = tk.lexer]
    IN IF tk.tok.kind \in {"Comment", "Whitespace"} THEN next(q)
       ELSE TokOk(q, tk.tok)

(* Parser::expect (parser.rs:71-79) *)
expect(p, kind) ==
    LET n == next(p)
    IN IF n.tok.kind = kind THEN n
       ELSE TokErr(n.p, ParseError("Expect", kind, <<>>, n.p.pos))

(* Parser::require (parser.rs:124-130) *)
require(p) ==
    LET n == next(p)
    IN IF n.tok.kind \in {"Invalid", "Null"}
       THEN TokErr(n.p, ParseError("require", n.tok.kind, n.tok.value, n.p.pos))
       ELSE n

(* Result<Instr, ParseError>; "panic" is an unwrap() of an Err *)
InstrOk(p, i) == [p |-> p, res |-> "Ok", instr |-> i, err |-> NoError]
InstrErr(p, e) ==
    [p |-> p, res |-> "Err", instr |-> Instr("", CHSValueNone), err |-> e]
InstrPanic(p) ==
    [p |-> p, res |-> "panic", instr |-> Instr("", CHSValueNone), err |-> NoError]

(* Parser::operand (parser.rs:201-204) *)
operand(p) ==
    LET e == expect(p, "Int")
    IN IF e.res = "Err" THEN InstrErr(e.p, e.err)
       ELSE LET v == ParseUsize(e.tok.value)
            IN IF IsSome(v) THEN InstrOk(e.p, Instr("Dup", CHSValueP(Unwrap(v))))
               ELSE InstrPanic(e.p)

(* the tokens that are one instruction without operand (parser.rs:187-194) *)
PlainOpcode(kind) ==
    CASE kind = "Add" -> "Add" [] kind = "Minus" -> "Minus"
      [] kind = "Mul" -> "Mul" [] kind = "Div" -> "Div"
      [] kind = "Print" -> "Print" [] kind = "Pop" -> "Pop"
      [] kind = "Hlt" -> "Halt" [] kind = "Eq" -> "Eq"
PlainKinds == {"Add", "Minus", "Mul", "Div", "Print", "Pop", "Hlt", "Eq"}

(* Parser::instr (parser.rs:180-199) *)
instr(p, tok) ==
    IF tok.kind = "Int"
    THEN LET v == ParseI64(tok.value)
         IN IF IsSome(v) THEN InstrOk(p, Instr("Pushi", CHSValueI(Unwrap(v))))
            ELSE InstrPanic(p)
    ELSE IF tok.kind \in PlainKinds
    THEN InstrOk(p, Instr(PlainOpcode(tok.kind), CHSValueNone))
    ELSE IF tok.kind = "Dup" THEN operand(p)
    ELSE InstrErr(p, ParseError("is not a Instr", tok.kind, tok.value, p.pos))

(* Vec::insert(index, element) *)
InsertAt(s, index, x) ==
    SubSeq(s, 1, index) \o <<x>> \o SubSeq(s, index + 1, Len(s))

(* the active calls of proc and if_block, innermost last; an if_block call *)
(* keeps the offset it took at its start (parser.rs:163)                   *)
ProcCall == [fn |-> "proc", offset |-> 0]
IfBlockCall(offset) == [fn |-> "if_block", offset |-> offset]
Active == pcalls[Len(pcalls)]
Return == SubSeq(pcalls, 1, Len(pcalls) - 1)

(* Result<Program, ParseError> of parse; "panic" is an unwrap() of an Err *)
Parsed(res, stmt, err) == [res |-> res, stmt |-> stmt, err |-> err]
NotParsed == Parsed("pending", <<>>, NoError)
Parsing == mode = "parser" /\ parsed = NotParsed

(* parse returns Err(err), or panics: the calls in progress are left *)
ParseFail(p, res, err) ==
    /\ parsed' = Parsed(res, <<>>, err)
    /\ parser' = p
    /\ pcalls' = <<>>
    /\ UNCHANGED <<pbody, pinstrs>>

(* Parser::proc up to its loop (parser.rs:140-144) *)
proc_head(p) ==
    LET name == expect(p, "Identifier")
    IN IF name.res = "Err" THEN name
       ELSE expect([name.p EXCEPT
                       !.labels = MapInsert(@, name.tok.value,
                                            name.p.label_count),
                       !.label_count = @ + 1],
                   "CurlyOpen")

(* one round of the loop of Parser::parse (parser.rs:60-68), with          *)
(* Parser::top_level (132-137) and the call of proc it makes               *)
ParseLoop ==
    /\ Parsing
    /\ pcalls = <<>>
    /\ LET first == next(parser)
       IN IF first.tok.kind = "Null"
          THEN /\ parsed' = Parsed("Ok", pinstrs, NoError)
               /\ parser' = first.p
               /\ UNCHANGED <<pbody, pinstrs, pcalls>>
          ELSE IF first.tok.kind # "Proc"
          THEN ParseFail(first.p, "Err", ParseError("...", "", <<>>, 0))
          ELSE LET h == proc_head(first.p)
               IN IF h.res = "Err" THEN ParseFail(h.p, "Err", h.err)
                  ELSE /\ parser' = h.p
                       /\ pbody' = <<>>
                       /\ pcalls' = <<ProcCall>>
                       /\ UNCHANGED <<pinstrs, parsed>>
    /\ UNCHANGED <<input, lvars, mode, source, cvars, mvars>>

(* one round of the loop of Parser::proc (parser.rs:145-157); at the brace *)
(* proc returns its body and parse appends it (parser.rs:67)               *)
ProcLoop ==
    /\ Parsing
    /\ pcalls # <<>>
    /\ Active.fn = "proc"
    /\ LET tok == require(parser)
       IN IF tok.res = "Err" THEN ParseFail(tok.p, "Err", tok.err)
          ELSE IF tok.tok.kind = "CurlyClose"
          THEN /\ pinstrs' = pinstrs \o pbody
               /\ pbody' = <<>>
               /\ pcalls' = Return
               /\ parser' = tok.p
               /\ UNCHANGED parsed
          ELSE IF tok.tok.kind = "If"
          THEN LET e == expect(tok.p, "CurlyOpen")
               IN IF e.res = "Err" THEN ParseFail(e.p, "Err", e.err)
                  ELSE /\ pcalls' = Append(pcalls, IfBlockCall(Len(pbody)))
                       /\ parser' = e.p
                       /\ UNCHANGED <<pbody, pinstrs, parsed>>
          ELSE LET i == instr(tok.p, tok.tok)
               IN IF i.res # "Ok" THEN ParseFail(i.p, i.res, i.err)
                  ELSE /\ pbody' = Append(pbody, i.instr)
                       /\ parser' = i.p
                       /\ UNCHANGED <<pinstrs, pcalls, parsed>>
    /\ UNCHANGED <<input, lvars, mode, source, cvars, mvars>>

(* if_block returns Err(err).  proc passes it on with `?` (parser.rs:150); *)
(* an enclosing if_block drops it and goes on with its loop                *)
(* (parser.rs:168)                                                         *)
if_block_err(p, err) ==
    IF Return[Len(Return)].fn = "proc" THEN ParseFail(p, "Err", err)
    ELSE /\ pcalls' = Return
         /\ parser' = p
         /\ UNCHANGED <<pbody, pinstrs, parsed>>

(* one round of the loop of Parser::if_block (parser.rs:164-171); at the   *)
(* brace the JmpIf is inserted where the block began (172-177)             *)
IfBlockLoop ==
    /\ Parsing
    /\ pcalls # <<>>
    /\ Active.fn = "if_block"
    /\ LET iftok == require(parser)
       IN IF iftok.res = "Err" THEN if_block_err(iftok.p, iftok.err)
          ELSE IF iftok.tok.kind = "CurlyClose"
          THEN /\ pbody' = InsertAt(pbody, Active.offset,
                                    Instr("JmpIf", CHSValueP(Len(pbody) + 1)))
               /\ pcalls' = Return
               /\ parser' = iftok.p
               /\ UNCHANGED <<pinstrs, parsed>>
          ELSE IF iftok.tok.kind = "If"
          THEN LET e == expect(iftok.p, "CurlyOpen")
               IN /\ pcalls' = IF e.res = "Err" THEN pcalls
                               ELSE Append(pcalls, IfBlockCall(Len(pbody)))
                  /\ parser' = e.p
                  /\ UNCHANGED <<pbody, pinstrs, parsed>>
          ELSE LET i == instr(iftok.p, iftok.tok)
               IN IF i.res = "panic" THEN ParseFail(i.p, "panic", i.err)
                  ELSE IF i.res = "Err" THEN if_block_err(i.p, i.err)
                  ELSE /\ pbody' = Append(pbody, i.instr)
                       /\ parser' = i.p
                       /\ UNCHANGED <<pinstrs, pcalls, parsed>>
    /\ UNCHANGED <<input, lvars, mode, source, cvars, mvars>>

ParserNext == ParseLoop \/ ProcLoop \/ IfBlockLoop

----------------------------------------------------------------------------
(* The inputs.                                                             *)

(* the decimal text of a number n >= 0 *)
DigitOf(d) ==
    CASE d = 0 -> "0" [] d = 1 -> "1" [] d = 2 -> "2" [] d = 3 -> "3"
      [] d = 4 -> "4" [] d = 5 -> "5" [] d = 6 -> "6" [] d = 7 -> "7"
      [] d = 8 -> "8" [] d = 9 -> "9"
RECURSIVE Numeral(_)
Numeral(n) ==
    IF n < 10 THEN <<DigitOf(n)>>
    ELSE Append(Numeral(n \div 10), DigitOf(n % 10))

I1 == IntExpr(<<"1">>)

(* integer literals whose text is no i64: no number, and i64::MAX + 1 *)
NoInts == {IntExpr(<<"x">>), IntExpr(<<>>), IntExpr(Append(SubSeq(I64MaxDigits, 1, 18), "8"))}

(* expression lists of at most one literal *)
S0 == {<<>>, <<I1>>}

(* if, if/else, while and peek blocks over S0 *)
B1 ==
    {If(c, t, None) : c \in S0, t \in S0}
    \cup {If(c, t, Some(e)) : c \in S0, t \in S0, e \in S0}
    \cup {Whlie(c, b) : c \in S0, b \in S0}
    \cup {Peek(<<"a">>, b) : b \in S0}

S1 == S0 \cup {<<x>> : x \in B1}

(* blocks that hold a block: in the condition, a branch or the body *)
B2 ==
    {If(c, t, None) : c \in S0, t \in S1}
    \cup {If(c, t, None) : c \in S1, t \in S0}
    \cup {If(c, t, Some(e)) : c \in S0, t \in S1, e \in S0}
    \cup {If(c, t, Some(e)) : c \in S0, t \in S0, e \in S1}
    \cup {Whlie(c, b) : c \in S0, b \in S1}
    \cup {Whlie(c, b) : c \in S1, b \in S0}
    \cup {Peek(<<"a">>, b) : b \in S1}

(* a nest alone, followed by a literal, or after a literal *)
NestPrograms ==
    {<<x>> : x \in B2} \cup {<<x, I1>> : x \in B2} \cup {<<I1, x>> : x \in B2}

Names == {"a", "b"}
NameLists ==
    {<<>>} \cup {<<n>> : n \in Names} \cup {<<n, k>> : n \in Names, k \in Names}

NameAtoms == {IdentExpr("a"), IdentExpr("b"), Assigin("a"), SetExpr}
T0 == {<<>>} \cup {<<x>> : x \in NameAtoms}
P1 == {Peek(ns, b) : ns \in NameLists, b \in T0}
T1 == T0 \cup {<<p>> : p \in P1} \cup {<<p, IdentExpr("a")>> : p \in P1}
P2 == {Peek(ns, b) : ns \in {<<"a">>, <<"b">>, <<"a", "b">>}, b \in T1}
Globals0 == {<<>>, <<Var("a", <<I1>>)>>, <<Var("b", <<IdentExpr("b")>>)>>,
             <<Assigin("b")>>}
After0 == {<<>>, <<IdentExpr("a")>>, <<Var("a", <<I1>>)>>, <<Assigin("a")>>}

(* globals, then a nest of peek blocks, then a use of a name *)
NamePrograms == {g \o <<p>> \o u : g \in Globals0, p \in P1 \cup P2, u \in After0}

(* a block whose condition, branch or body does not compile, and a       *)
(* literal after it                                                       *)
ErrorPrograms ==
    {<<x, I1>> : x \in {If(<<SetExpr>>, <<I1>>, None),
                        If(<<I1>>, <<SetExpr>>, None),
                        If(<<I1>>, <<I1>>, Some(<<SetExpr>>)),
                        Whlie(<<SetExpr>>, <<I1>>),
                        Whlie(<<I1>>, <<IdentExpr("a")>>),
                        Peek(<<"a">>, <<Var("a", <<I1>>)>>),
                        Var("a", <<Whlie(<<>>, <<>>)>>)}}

(* literals of the three kinds, alone and around a block *)
Literals == {I1, StrExpr("s"), ListExpr(<<>>)}
LiteralPrograms ==
    {<<x>> : x \in Literals}
    \cup {<<x, y>> : x \in Literals, y \in Literals}
    \cup {<<x, Whlie(<<y>>, <<z>>)>> : x \in Literals, y \in Literals, z \in Literals}
    \cup {<<Var("a", <<x, y>>), z>> : x \in Literals, y \in Literals, z \in Literals}

(* a literal that is no i64: alone, in a declaration, inside a block and  *)
(* after code that compiled                                               *)
PanicPrograms ==
    {<<x>> : x \in NoInts}
    \cup {<<I1, x, I1>> : x \in NoInts}
    \cup {<<Var("a", <<I1, x>>), I1>> : x \in NoInts}
    \cup {<<If(<<x>>, <<I1>>, None)>> : x \in NoInts}
    \cup {<<Whlie(<<I1>>, <<I1, x>>), I1>> : x \in NoInts}
    \cup {<<Peek(<<"a">>, <<x>>)>> : x \in NoInts}

CompilePrograms ==
    NestPrograms \cup NamePrograms \cup ErrorPrograms \cup LiteralPrograms
    \cup PanicPrograms

(* the programs that are compiled and run *)
Print1(v) == <<IntExpr(Numeral(v)), Buildin("Print")>>
Conds == {<<IntExpr(Numeral(c))>> : c \in 0..1}
         \cup {<<IntExpr(Numeral(a)), IntExpr(Numeral(b)), Op("Eq")>> :
                  a \in 0..1, b \in 0..1}
IfElsePrograms ==
    {<<If(c, Print1(1), Some(Print1(0)))>> \o t : c \in Conds,
                                                   t \in {<<>>, Print1(2)}}
CountDown(n) ==
    <<Var("x", <<IntExpr(Numeral(n))>>),
      Whlie(<<IdentExpr("x"), IntExpr(<<"0">>), Op("Gt")>>,
            <<IdentExpr("x"), Buildin("Print"),
              IdentExpr("x"), IntExpr(<<"1">>), Op("Minus"), Assigin("x")>>)>>
WhilePrograms ==
    {CountDown(n) : n \in 0..MaxCount}
    \cup {<<Whlie(<<IntExpr(Numeral(c))>>, Print1(1))>> : c \in 0..1}
    \cup {<<Var("x", <<IntExpr(Numeral(n))>>),
            Whlie(<<IdentExpr("x"), IntExpr(<<"0">>), Op("Eq")>>,
                  <<IdentExpr("x"), Buildin("Print"),
                    IntExpr(<<"0">>), Assigin("x")>>)>> : n \in 0..1}
RunPrograms == IfElsePrograms \cup WhilePrograms

(* machine programs given directly to CHSVM::new *)
Words == (0 - MaxOperand)..MaxOperand
BinaryKinds == {"Add", "Minus", "Mul", "Div", "Eq", "Gt", "Gte", "Lt", "Lte"}
BinaryPrograms ==
    {<<Instr("Push", Some(7)), Instr("Push", Some(a)), Instr("Push", Some(b)),
       Instr(k, None)>> : a \in Words, b \in Words, k \in BinaryKinds}

Operands == {None} \cup {Some(v) : v \in -1..3}
Alphabet ==
    {Instr(k, o) : k \in {"Push", "Dup", "Jmp", "JmpIf"}, o \in Operands}
    \cup {Instr(k, None) : k \in InstrKinds \ {"Push", "Dup", "Jmp", "JmpIf"}}
ShortPrograms ==
    {<<x>> : x \in Alphabet} \cup {<<x, y>> : x \in Alphabet, y \in Alphabet}

(* two values and a Dup of every offset around the depth and the length *)
DupPrograms ==
    {<<Instr("Push", Some(7)), Instr("Push", Some(a)), Instr("Dup", Some(k))>> :
        a \in Words, k \in -1..4}

(* a loop that leaves one more value on the stack each time round *)
DupFillProgram ==
    <<Instr("Push", Some(1)), Instr("Dup", Some(0)), Instr("JmpIf", Some(0))>>

(* programs that work at the ends of the i64 range: -2^31 * 2^16 * 2^16  *)
(* is i64::MIN, and (i64::MIN + 1) * -1 is i64::MAX, computed without an  *)
(* overflow; then one more operand, below or above, and one operation     *)
I64MinProgram ==
    <<Instr("Push", Some(-2147483647 - 1)), Instr("Push", Some(65536)),
      Instr("Mul", None), Instr("Push", Some(65536)), Instr("Mul", None)>>
I64MaxProgram ==
    I64MinProgram \o <<Instr("Push", Some(1)), Instr("Add", None),
                       Instr("Push", Some(-1)), Instr("Mul", None)>>
EdgeOperands == {-2, -1, 0, 1, 2}
EdgeKinds == {"Add", "Minus", "Mul", "Div"}
EdgePrograms ==
    {e \o <<Instr("Push", Some(b)), Instr(k, None)>> :
        e \in {I64MinProgram, I64MaxProgram}, b \in EdgeOperands, k \in EdgeKinds}
    \cup {<<Instr("Push", Some(b))>> \o e \o <<Instr(k, None)>> :
        e \in {I64MinProgram, I64MaxProgram}, b \in EdgeOperands, k \in EdgeKinds}

MachinePrograms ==
    BinaryPrograms \cup ShortPrograms \cup DupPrograms \cup {DupFillProgram}
    \cup EdgePrograms

(* tokens given to from_literal_token: integers of up to MaxDigits digits   *)
(* and one of twenty, the keywords, and tokens of other kinds              *)
MaxDigits == 2
Numerals ==
    UNION {[1..n -> {"0", "1", "7"}] : n \in 1..MaxDigits}
Nines == [i \in 1..20 |-> "9"]
KeywordTexts ==
    {<<"t", "r", "u", "e">>, <<"f", "a", "l", "s", "e">>, <<"i", "f">>,
     <<"s", "e", "t">>}
OtherTokens ==
    {<<"Colon", <<":">>>>, <<"Minus", <<"-">>>>, <<"Ident", <<"x">>>>,
     <<"Ident", <<"t", "r", "u", "e">>>>, <<"String", <<"1", "0">>>>,
     <<"String", <<"f", "a", "l", "s", "e">>>>, <<"EOF", <<>>>>}
Locs == {Loc(1, 1), Loc(2, 5)}
Tokens ==
    {Token("Interger", v, l) : v \in Numerals \cup {Nines}, l \in Locs}
    \cup {Token("Keyword", v, l) : v \in KeywordTexts, l \in Locs}
    \cup {Token(o[1], o[2], l) : o \in OtherTokens, l \in Locs}

(* token streams given to the token-level parser: one procedure whose     *)
(* body holds if blocks nested up to MaxNest deep or two blocks in a row,   *)
(* and streams that are cut short, misplaced or padded                     *)
MaxNest == 2
ProcTok == Tok("Proc", <<"p", "r", "o", "c">>)
NameTok == Tok("Identifier", <<"m">>)
OpenTok == Tok("CurlyOpen", <<"{">>)
CloseTok == Tok("CurlyClose", <<"}">>)
IfTok == Tok("If", <<"i", "f">>)
OneTok == Tok("Int", <<"1">>)
HltTok == Tok("Hlt", <<"h", "l", "t">>)
DupTok == Tok("Dup", <<"d", "u", "p">>)
SpaceTok == Tok("Whitespace", <<" ">>)
Straight == {<<>>, <<OneTok>>, <<HltTok>>}

RECURSIVE Nested(_)
Nested(d) ==
    IF d = 0 THEN Straight
    ELSE {pre \o <<IfTok, OpenTok>> \o b \o <<CloseTok>> \o post :
            pre \in Straight, b \in Nested(d - 1), post \in Straight}
IfBodies ==
    UNION {Nested(d) : d \in 0..MaxNest}
    \cup {a \o b : a \in Nested(1), b \in Nested(1)}
ProcOf(b) == <<ProcTok, NameTok, OpenTok>> \o b \o <<CloseTok>>
OtherStreams ==
    {<<>>, <<HltTok>>, <<ProcTok, OpenTok>>, <<ProcTok, NameTok, HltTok>>,
     <<ProcTok, NameTok, OpenTok, HltTok>>,
     ProcOf(<<Tok("Invalid", <<"?">>)>>),
     ProcOf(<<IfTok, HltTok>>),
     ProcOf(<<IfTok, OpenTok, IfTok, HltTok, CloseTok>>),
     ProcOf(<<IfTok, OpenTok, IfTok, OpenTok, ProcTok, CloseTok, HltTok, CloseTok>>),
     ProcOf(<<IfTok, OpenTok, IfTok, OpenTok, HltTok>>),
     ProcOf(<<DupTok, OneTok>>), ProcOf(<<DupTok, HltTok>>),
     ProcOf(<<DupTok, Tok("Int", <<"+", "1">>)>>),
     ProcOf(<<DupTok, Tok("Int", <<"-", "1">>)>>),
     ProcOf(<<IfTok, OpenTok, DupTok, Tok("Int", <<"0">>), CloseTok>>),
     ProcOf(<<Tok("Int", <<"-", "1">>)>>),
     ProcOf(<<Tok("Int", Nines)>>),
     ProcOf(<<IfTok, OpenTok, IfTok, OpenTok, Tok("Int", Nines), CloseTok, CloseTok>>),
     ProcOf(<<SpaceTok, IfTok, SpaceTok, OpenTok, Tok("Comment", <<"#">>), HltTok,
              CloseTok>>),
     <<SpaceTok>> \o ProcOf(<<HltTok>>) \o <<SpaceTok>>,
     ProcOf(<<IfTok, OpenTok, HltTok, CloseTok>>)
        \o <<ProcTok, Tok("Identifier", <<"n">>), OpenTok, IfTok, OpenTok, OneTok,
             CloseTok, CloseTok>>,
     ProcOf(<<HltTok>>) \o ProcOf(<<OneTok>>)}
    \cup {ProcOf(<<Tok(k, <<>>)>>) : k \in PlainKinds}
TokenStreams == {ProcOf(b) : b \in IfBodies} \cup OtherStreams

----------------------------------------------------------------------------
NoLast ==
    [kind |-> "none", operands |-> None, pre_stack |-> <<>>, pre_sp |-> 0,
     pre_ip |-> 0, res |-> "Ok"]
NoPeek == [names |-> <<>>, before |-> EmptyMap, after |-> EmptyMap, n |-> 0]
NoBytecode == [program |-> <<>>, consts |-> <<>>]

(* IrParser::new (ir.rs:155-164) *)
CompilerInit(p) ==
    /\ source = p
    /\ program = p
    /\ instrs = <<>>
    /\ consts = <<>>
    /\ var_def = EmptyMap
    /\ local_def = EmptyMap
    /\ var_count = 0
    /\ frames = <<>>
    /\ result = "new"
    /\ error = ""
    /\ bytecode = NoBytecode
    /\ calls = 0
    /\ last_peek = NoPeek

(* CHSVM::new (vm.rs:29-31) *)
MachineInit(p, st) ==
    /\ vm_program = p
    /\ vm_consts = <<>>
    /\ stack = <<>>
    /\ sp = 0
    /\ ip = 0
    /\ is_halted = FALSE
    /\ globals = <<>>
    /\ output = <<>>
    /\ vstate = st
    /\ last = NoLast

NoToken == Token("EOF", <<>>, Loc(0, 0))

(* Parser::new (parser.rs:44-55) on the tokens of the input *)
ParserInit(toks) ==
    /\ input = toks
    /\ parser = NewParser(toks)
    /\ pinstrs = <<>>
    /\ pbody = <<>>
    /\ pcalls = <<>>
    /\ parsed = NotParsed

(* the machine is that of a build with overflow checks or of one without; *)
(* where no machine runs the build makes no difference                    *)
Init ==
    \/ /\ mode = "compile"
       /\ \E p \in CompilePrograms : CompilerInit(p)
       /\ MachineInit(<<>>, "off")
       /\ driver = "run"
       /\ overflow_checks = TRUE
       /\ token = NoToken /\ literal = LitPending
       /\ ParserInit(<<>>)
    \/ /\ mode = "compile_run"
       /\ \E p \in RunPrograms : CompilerInit(p)
       /\ MachineInit(<<>>, "off")
       /\ driver = "run"
       /\ overflow_checks \in BOOLEAN
       /\ token = NoToken /\ literal = LitPending
       /\ ParserInit(<<>>)
    \/ /\ mode = "vm"
       /\ CompilerInit(<<>>)
       /\ \E p \in MachinePrograms : MachineInit(p, "ready")
       /\ driver \in {"run", "manual"}
       /\ overflow_checks \in BOOLEAN
       /\ token = NoToken /\ literal = LitPending
       /\ ParserInit(<<>>)
    \/ /\ mode = "literal"
       /\ CompilerInit(<<>>)
       /\ MachineInit(<<>>, "off")
       /\ driver = "run"
       /\ overflow_checks = TRUE
       /\ token \in Tokens
       /\ literal = LitPending
       /\ ParserInit(<<>>)
    \/ /\ mode = "parser"
       /\ CompilerInit(<<>>)
       /\ MachineInit(<<>>, "off")
       /\ driver = "run"
       /\ overflow_checks = TRUE
       /\ token = NoToken /\ literal = LitPending
       /\ \E toks \in TokenStreams : ParserInit(toks)

Next == CompilerNext \/ MachineNext \/ FromLiteralToken \/ ParserNext

Spec == Init /\ [][Next]_vars

(* run() calls execute_next_instr again as long as its loop goes on        *)
(* (vm.rs:223-228): a step of the machine that stays possible is taken     *)
FairSpec == Spec /\ WF_vars(MachineNext)

----------------------------------------------------------------------------
(* Properties.                                                             *)

Jumps == {"Jmp", "JmpIf"}

(* the first parse call returned Ok(Bytecode) *)
Compiled == mode # "vm" /\ result = "ok" /\ calls = 1

(* 0-based indices of the instructions of a program *)
Indices(prog) == 0..(Len(prog) - 1)
At(prog, i) == prog[i + 1]

RunEnded == mode = "compile_run" /\ vstate = "done"

(* the words of a sequence of integers *)
WordsOf(ns) == [i \in 1..Len(ns) |-> Word(ns[i])]

(* the value the condition of the if/else programs evaluates to *)
LitValue(e) == Unwrap(ParseI64(e.v))
CondValue(c) ==
    IF Len(c) = 1 THEN LitValue(c[1])
    ELSE IF LitValue(c[1]) = LitValue(c[2]) THEN 1 ELSE 0

(* what the program prints after its first block *)
Trailer(p) == IF Len(p) > 1 THEN <<2>> ELSE <<>>

(* C2 as claimed: the code compiled for if/else runs the true-branch and  *)
(* never the else-branch when the condition is 1, the else-branch and     *)
(* never the true-branch when it is 0 (the true-branch prints 1, the      *)
(* else-branch prints 0); if (1 == 1) {print(1)} else {print(0)} prints   *)
(* 1 and only 1.                                                          *)
C2_IfElseRunsChosenBranch ==
    (RunEnded /\ source \in IfElsePrograms) =>
        output = WordsOf(<<CondValue(source[1].cond)>> \o Trailer(source))

(* C3 as claimed: when the JmpIf that closes the condition of a compiled  *)
(* while pops 0 the body is not entered (the loop is left, so a condition *)
(* false on entry gives zero iterations), and when it pops 1 the body is  *)
(* entered; the condition is evaluated once per iteration and once more.  *)
WhileJmpIf(prog, i) ==
    /\ At(prog, i).kind = "JmpIf"
    /\ IsSome(At(prog, i).operands)
    /\ Unwrap(At(prog, i).operands) - 1 \in Indices(prog)
    /\ At(prog, Unwrap(At(prog, i).operands) - 1).kind = "Jmp"
    /\ Unwrap(At(prog, Unwrap(At(prog, i).operands) - 1).operands) <= i

C3_WhileBodyRunsWhileTrue ==
    (mode = "compile_run" /\ source \in WhilePrograms
        /\ last.kind = "JmpIf" /\ last.res = "Ok"
        /\ WhileJmpIf(vm_program, last.pre_ip)) =>
        LET popped == last.pre_stack[Len(last.pre_stack)]
            exit == Unwrap(last.operands)
            body == last.pre_ip + 1
        IN /\ popped = Word(0) => ip = exit
           /\ popped = Word(1) => ip = body

(* C4 as claimed: the compiled loop that counts a global down from 3 to 0 *)
(* and prints it in each iteration prints 3, 2, 1 and the run ends halted *)
(* by a Halt instruction, without a trap.                                 *)
C4_CountDownPrints321AndHalts ==
    (RunEnded /\ source = CountDown(3)) =>
        /\ output = WordsOf(<<3, 2, 1>>)
        /\ is_halted
        /\ last.kind = "Halt"
        /\ last.res = "Ok"

(* C5 as claimed: at every point of a compilation no name is registered   *)
(* both in var_def and in local_def; a peek of a global's name, a var of  *)
(* a local's name and an Assigin to a local's name are compile errors.    *)
C5_NamespacesDisjoint ==
    mode # "vm" => (DOMAIN var_def) \cap (DOMAIN local_def) = {}

(* C6 as claimed: after a peek block that compiled, whatever its list of  *)
(* names, the local binding window equals the window before the block.    *)
C6_PeekRestoresWindow ==
    last_peek.n > 0 => last_peek.after = last_peek.before

(* C7: a call of execute_next_instr made with ip at (or past) the end of  *)
(* the program returns ProgramEndWithoutHalt and leaves the stack, sp and *)
(* is_halted as they were; and run() ends without a trap only after a     *)
(* step that executed Halt.                                               *)
C7_EndOfProgramIsAFault ==
    /\ last.kind = "end" =>
          /\ last.res = "ProgramEndWithoutHalt"
          /\ last.pre_ip >= Len(vm_program)
          /\ stack = last.pre_stack
          /\ sp = last.pre_sp
          /\ ip = last.pre_ip + 1
          /\ (driver = "run" => ~is_halted)
    /\ (driver = "run" /\ vstate = "done" /\ last.res = "Ok") =>
          /\ last.kind = "Halt"
          /\ is_halted
    /\ (driver = "run" /\ is_halted) => last.kind = "Halt"

(* run() fell off the end of a program: the last instruction was executed *)
(* without a trap and the next call found ip = program length             *)
C7_Witness ==
    /\ driver = "run"
    /\ vstate = "done"
    /\ last.kind = "end"
    /\ last.pre_ip = Len(vm_program)
    /\ Len(vm_program) > 0
    /\ stack # <<>>

(* the instruction of the last step pushes one value and pops none *)
LastPushes ==
    \/ last.kind = "Push" /\ IsSome(last.operands)
    \/ /\ last.kind = "Dup" /\ IsSome(last.operands)
       /\ Unwrap(last.operands) >= 0
       /\ Unwrap(last.operands) <= Len(vm_program)
       /\ Unwrap(last.operands) < Len(last.pre_stack)

(* C8: the stack never holds more than STACK_CAPACITY values; a push at a *)
(* depth below the capacity succeeds and adds one value, a push at depth  *)
(* STACK_CAPACITY returns StackOverflow and leaves the stack unchanged, a *)
(* pop on an empty stack returns StackUnderflow.                          *)
C8_StackWithinCapacity ==
    /\ Len(stack) <= STACK_CAPACITY
    /\ (LastPushes /\ Len(last.pre_stack) < STACK_CAPACITY) =>
          /\ last.res = "Ok"
          /\ Len(stack) = Len(last.pre_stack) + 1
          /\ SubSeq(stack, 1, Len(last.pre_stack)) = last.pre_stack
    /\ (LastPushes /\ Len(last.pre_stack) = STACK_CAPACITY) =>
          /\ last.res = "StackOverflow"
          /\ stack = last.pre_stack
    /\ (last.kind \in {"Pop", "JmpIf", "Print"} /\ last.pre_stack = <<>>) =>
          /\ last.res = "StackUnderflow"
          /\ stack = <<>>

(* a push met a full stack *)
C8_Witness ==
    /\ last.kind = "Push"
    /\ Len(last.pre_stack) = STACK_CAPACITY
    /\ last.res = "StackOverflow"
    /\ Len(stack) = STACK_CAPACITY

Abs(x) == IF x < 0 THEN -x ELSE x

(* the quotient of a by b truncated towards zero, b # 0 *)
Quotient(a, b) ==
    CHOOSE q \in (0 - Abs(a))..Abs(a) :
        \E r \in (0 - Abs(b))..Abs(b) :
            /\ a = q * b + r
            /\ Abs(r) < Abs(b)
            /\ (r > 0 => a > 0)
            /\ (r < 0 => a < 0)

(* the last step executed a two-operand instruction on a stack holding a  *)
(* (pushed earlier) below b (on top)                                      *)
LastBinary(kind) == last.kind = kind /\ Len(last.pre_stack) >= 2
LastA == last.pre_stack[Len(last.pre_stack) - 1]
LastB == last.pre_stack[Len(last.pre_stack)]
LastRest == SubSeq(last.pre_stack, 1, Len(last.pre_stack) - 2)
LastGave(value) == last.res = "Ok" /\ stack = Append(LastRest, value)

(* a word in twice its bytes: there the sum, the difference and the       *)
(* product of two words are exact                                         *)
Wide(w) == SignExtend(w, 2 * WordBytes)
IsI64(wide) == wide = Wide(SubSeq(wide, 1, WordBytes))
ExactSum(a, b) == wrapping_add(Wide(a), Wide(b))
ExactDifference(a, b) == wrapping_sub(Wide(a), Wide(b))
ExactProduct(a, b) == wrapping_mul(Wide(a), Wide(b))

(* q is the quotient of a by b truncated towards zero: what a - q * b     *)
(* leaves is smaller than b and, unless 0, has the sign of a              *)
IsQuotient(q, a, b) ==
    LET r == wrapping_sub(Wide(a), ExactProduct(q, b))
    IN /\ ULess(unsigned_abs(r), unsigned_abs(Wide(b)))
       /\ r # Zero(Len(r)) => is_negative(r) = is_negative(a)

(* the last step left the quotient of a by b in their place *)
LastGaveQuotient ==
    /\ last.res = "Ok"
    /\ Len(stack) = Len(LastRest) + 1
    /\ SubSeq(stack, 1, Len(LastRest)) = LastRest
    /\ IsQuotient(stack[Len(stack)], LastA, LastB)

(* the last step left the word of that exact value in place of a and b *)
LastGaveExactly(wide) ==
    /\ last.res = "Ok"
    /\ Len(stack) = Len(LastRest) + 1
    /\ SubSeq(stack, 1, Len(LastRest)) = LastRest
    /\ Wide(stack[Len(stack)]) = wide

(* C9 as claimed: on a stack holding a below b, Add leaves a+b, Minus     *)
(* a-b, Mul a*b, Eq 1 if a = b and 0 otherwise, Div the quotient of a by  *)
(* b when b # 0; Div returns DivByZero exactly when b = 0; a successful   *)
(* operation lowers the depth by one and leaves the values below a        *)
(* unchanged.                                                             *)
C9_Arithmetic ==
    /\ LastBinary("Add") => LastGaveExactly(ExactSum(LastA, LastB))
    /\ LastBinary("Minus") => LastGaveExactly(ExactDifference(LastA, LastB))
    /\ LastBinary("Mul") => LastGaveExactly(ExactProduct(LastA, LastB))
    /\ LastBinary("Eq") => LastGave(AsWord(LastA = LastB))
    /\ (LastBinary("Div") /\ LastB # Word(0)) => LastGaveQuotient
    /\ LastBinary("Div") => (last.res = "DivByZero" <=> LastB = Word(0))
    /\ (last.kind \in {"Add", "Minus", "Mul", "Div", "Eq"} /\ last.res = "Ok") =>
          /\ Len(last.pre_stack) >= 2
          /\ Len(stack) = Len(last.pre_stack) - 1
          /\ sp = last.pre_sp - 1

(* what the code does where the exact result is no i64: in a build with   *)
(* overflow checks the step panics, in one without the result wraps       *)
LastOverflowed(wide) ==
    IF IsI64(wide) THEN LastGaveExactly(wide)
    ELSE IF overflow_checks THEN last.res = "panic"
    ELSE LastGave(SubSeq(wide, 1, WordBytes))

(* C9 but for the results that are no i64: Add, Minus and Mul then panic  *)
(* or wrap, as the build has it, and Div (only i64::MIN by -1) panics in  *)
(* every build.                                                           *)
C9_UnlessOverflow ==
    /\ LastBinary("Add") => LastOverflowed(ExactSum(LastA, LastB))
    /\ LastBinary("Minus") => LastOverflowed(ExactDifference(LastA, LastB))
    /\ LastBinary("Mul") => LastOverflowed(ExactProduct(LastA, LastB))
    /\ LastBinary("Eq") => LastGave(AsWord(LastA = LastB))
    /\ (LastBinary("Div") /\ LastB # Word(0)) =>
          IF LastA = I64Min /\ LastB = Word(-1)
          THEN last.res = "panic"
          ELSE LastGaveQuotient
    /\ LastBinary("Div") => (last.res = "DivByZero" <=> LastB = Word(0))
    /\ (last.kind \in {"Add", "Minus", "Mul", "Div", "Eq"} /\ last.res = "Ok") =>
          /\ Len(last.pre_stack) >= 2
          /\ Len(stack) = Len(last.pre_stack) - 1
          /\ sp = last.pre_sp - 1

(* C9 on the operands of the short programs, by the arithmetic of the     *)
(* integers                                                               *)
C9_OnSmallOperands ==
    (last.kind \in {"Add", "Minus", "Mul", "Div"} /\ Len(last.pre_stack) >= 2) =>
        \A a \in Words, b \in Words :
            (LastA = Word(a) /\ LastB = Word(b)) =>
                /\ last.kind = "Add" => LastGave(Word(a + b))
                /\ last.kind = "Minus" => LastGave(Word(a - b))
                /\ last.kind = "Mul" => LastGave(Word(a * b))
                /\ (last.kind = "Div" /\ b # 0) => LastGave(Word(Quotient(a, b)))
                /\ last.kind = "Div" => (last.res = "DivByZero" <=> b = 0)

(* a subtraction and a division whose results depend on the order of the  *)
(* operands, above a value that stays                                     *)
C9_Witness ==
    /\ LastBinary("Minus")
    /\ LastA = Word(1) /\ LastB = Word(3)
    /\ stack = <<Word(7), Word(-2)>>

(* i64::MIN was divided by -1 *)
C9_DivOverflow ==
    /\ LastBinary("Div")
    /\ LastA = I64Min /\ LastB = Word(-1)
    /\ last.res = "panic"

(* a > b on i64: b - a is negative *)
Greater(a, b) == is_negative(ExactDifference(b, a))

(* C10 as claimed: on a stack holding op1 (pushed earlier) below op2 (on  *)
(* top), Gt pushes 1 exactly when op1 > op2, Gte when op1 >= op2, Lt when *)
(* op1 < op2, Lte when op1 <= op2, and 0 otherwise.                       *)
C10_ComparisonsNatural ==
    /\ LastBinary("Gt") => LastGave(AsWord(Greater(LastA, LastB)))
    /\ LastBinary("Gte") => LastGave(AsWord(~Greater(LastB, LastA)))
    /\ LastBinary("Lt") => LastGave(AsWord(Greater(LastB, LastA)))
    /\ LastBinary("Lte") => LastGave(AsWord(~Greater(LastA, LastB)))

(* the operand of the instruction of the last step, and the value it found *)
(* on top of the stack                                                     *)
LastTarget == Unwrap(last.operands)
LastTop == last.pre_stack[Len(last.pre_stack)]

(* C11: a JmpIf whose target is the index of an instruction pops exactly   *)
(* one value; when that value is 1 the next instruction executed is the    *)
(* one at the target, for every other value it is the one that follows the *)
(* JmpIf.  A JmpIf on an empty stack returns StackUnderflow.               *)
C11_JmpIfJumpsOnOne ==
    /\ (last.kind = "JmpIf" /\ IsSome(last.operands)
          /\ LastTarget \in Indices(vm_program) /\ last.pre_stack # <<>>) =>
          /\ last.res = "Ok"
          /\ stack = Pop1(last.pre_stack)
          /\ sp = last.pre_sp - 1
          /\ ip = (IF LastTop = Word(1) THEN LastTarget ELSE last.pre_ip + 1)
    /\ (last.kind = "JmpIf" /\ last.pre_stack = <<>>) =>
          /\ last.res = "StackUnderflow"
          /\ stack = <<>>

(* a JmpIf that found a value other than 0 and 1 and fell through although *)
(* its target is another instruction                                       *)
C11_Witness ==
    /\ last.kind = "JmpIf"
    /\ last.pre_stack # <<>>
    /\ LastTop \notin {Word(0), Word(1)}
    /\ IsSome(last.operands)
    /\ LastTarget \in Indices(vm_program)
    /\ LastTarget # last.pre_ip + 1
    /\ ip = last.pre_ip + 1

(* the last step executed a Jmp, or a JmpIf that had a value to pop, and   *)
(* the instruction carries a target                                        *)
LastJump ==
    /\ last.kind \in Jumps
    /\ IsSome(last.operands)
    /\ (last.kind = "JmpIf" => last.pre_stack # <<>>)

(* C12 as claimed: a Jmp or JmpIf whose target is below 0 or at or above   *)
(* the program length returns AddersOutOfBounds, whatever the value JmpIf  *)
(* popped, and ip is not set to the target.                                *)
C12_TargetsFromLengthRejected ==
    (LastJump /\ (LastTarget < 0 \/ LastTarget >= Len(vm_program))) =>
        /\ last.res = "AddersOutOfBounds"
        /\ ip # LastTarget

(* C12 amended: a Jmp or JmpIf (on a stack that is not empty) whose target *)
(* is below 0 or above the program length returns AddersOutOfBounds,       *)
(* whatever the value JmpIf popped, and ip is not set to the target; a     *)
(* target equal to the program length is taken like any other.             *)
C12_TargetsBeyondLengthRejected ==
    /\ (LastJump /\ (LastTarget < 0 \/ LastTarget > Len(vm_program))) =>
          /\ last.res = "AddersOutOfBounds"
          /\ ip = last.pre_ip + 1
          /\ ip # LastTarget
    /\ (LastJump /\ LastTarget = Len(vm_program)) =>
          /\ last.res = "Ok"
          /\ (last.kind = "Jmp" \/ LastTop = Word(1)) => ip = LastTarget
    /\ (mode = "vm" /\ vstate # "crashed") =>
          (ip >= 0 /\ ip <= Len(vm_program) + MaxPast)

(* a JmpIf that popped 1 and was refused a target above the length *)
C12_Witness ==
    /\ last.kind = "JmpIf"
    /\ last.pre_stack # <<>>
    /\ LastTop = Word(1)
    /\ IsSome(last.operands)
    /\ LastTarget > Len(vm_program)
    /\ last.res = "AddersOutOfBounds"

(* C13 as claimed: Push, Dup, Jmp and JmpIf (on a stack that is not empty) *)
(* executed from an instruction without operand return OperandNotProvided. *)
C13_MissingOperandIsATrap ==
    (last.kind \in {"Push", "Dup", "Jmp", "JmpIf"} /\ ~IsSome(last.operands)
        /\ (last.kind = "JmpIf" => last.pre_stack # <<>>)) =>
        last.res = "OperandNotProvided"

(* C14 as claimed: Dup k returns StackOverflow when k is negative or      *)
(* above the program length, whatever the depth; else StackUnderflow when  *)
(* k is at or above the depth; else it pushes a copy of the value k        *)
(* positions below the top (k = 0 the top), the depth grows by one and the *)
(* entries already there stay.                                             *)
C14_DupIsRelativeToTop ==
    (last.kind = "Dup" /\ IsSome(last.operands)) =>
        LET k == LastTarget
            depth == Len(last.pre_stack)
        IN IF k < 0 \/ k > Len(vm_program)
           THEN last.res = "StackOverflow" /\ stack = last.pre_stack
           ELSE IF k >= depth
           THEN last.res = "StackUnderflow" /\ stack = last.pre_stack
           ELSE /\ last.res = "Ok"
                /\ stack = Append(last.pre_stack, last.pre_stack[depth - k])
                /\ sp = last.pre_sp + 1

(* C14 amended: the same, but on a full stack (depth STACK_CAPACITY) the   *)
(* push of the copy is refused: StackOverflow, the stack as it was.        *)
C14_DupUnlessFull ==
    (last.kind = "Dup" /\ IsSome(last.operands)) =>
        LET k == LastTarget
            depth == Len(last.pre_stack)
        IN IF k < 0 \/ k > Len(vm_program)
           THEN last.res = "StackOverflow" /\ stack = last.pre_stack
           ELSE IF k >= depth
           THEN last.res = "StackUnderflow" /\ stack = last.pre_stack
           ELSE IF depth = STACK_CAPACITY
           THEN /\ last.res = "StackOverflow"
                /\ stack = last.pre_stack
                /\ sp = last.pre_sp
           ELSE /\ last.res = "Ok"
                /\ stack = Append(last.pre_stack, last.pre_stack[depth - k])
                /\ sp = last.pre_sp + 1

(* a Dup within the depth that met a full stack and was refused *)
C14_RefusedOnFullStack ==
    /\ last.kind = "Dup"
    /\ IsSome(last.operands)
    /\ LastTarget = 0
    /\ Len(last.pre_stack) = STACK_CAPACITY
    /\ last.res = "StackOverflow"
    /\ stack = last.pre_stack

(* a Dup of the value below the top, which differs from the top *)
C14_Witness ==
    /\ last.kind = "Dup"
    /\ last.res = "Ok"
    /\ LastTarget = 1
    /\ last.pre_stack = <<Word(7), Word(2)>>
    /\ stack = <<Word(7), Word(2), Word(7)>>

(* run() has stopped stepping the machine: a step executed Halt or         *)
(* returned a trap (or did not return)                                     *)
RunStopped ==
    /\ mode # "compile"
    /\ driver = "run"
    /\ last.kind # "none"
    /\ (is_halted \/ last.res # "Ok")

(* C15: under run(), once a step has executed Halt or returned a trap no   *)
(* further instruction is executed: the stack, sp, ip, is_halted and the   *)
(* output never change again; and is_halted, once true, stays true.        *)
C15_NothingRunsAfterStop ==
    [][/\ RunStopped =>
            /\ stack' = stack
            /\ sp' = sp
            /\ ip' = ip
            /\ is_halted' = is_halted
            /\ output' = output
            /\ last' = last
       /\ is_halted => is_halted']_vars

(* run() returned after a Halt that is not the last instruction *)
C15_Witness ==
    /\ driver = "run"
    /\ vstate = "done"
    /\ last.kind = "Halt"
    /\ is_halted
    /\ ip < Len(vm_program)

(* C16 as claimed: once compiling an expression has failed, neither that   *)
(* call of parse nor any later call on the same compiler returns Bytecode, *)
(* and no later expression of the sequence is compiled: the instructions   *)
(* and the expressions left are those of the moment of the error.          *)
C16_ErrorIsFinal ==
    (mode = "compile" /\ error # "") =>
        /\ result # "ok"
        /\ bytecode = NoBytecode

(* a jump emitted without operand, and its replacement by a patch *)
Placeholder(i) == i.kind \in Jumps /\ ~IsSome(i.operands)
Patched(old, new) ==
    Placeholder(old) /\ new.kind = old.kind /\ IsSome(new.operands)

(* the index the innermost active handler has recorded for its next patch *)
Recorded(f) ==
    CASE f.fn = "if_expr" /\ f.pc = "if_branch" -> {f.offset}
      [] f.fn = "if_expr" /\ f.pc = "else_branch" -> {f.offset2}
      [] f.fn = "while_expr" /\ f.pc = "while_block" -> {f.ifaddrs}
      [] OTHER -> {}

(* C17: while compiling, the instruction sequence changes only by          *)
(* appending at its end and by patching: a patch replaces a Jmp or JmpIf   *)
(* emitted without operand, at the index recorded for it, by the same      *)
(* opcode with a target; an instruction that is not such a placeholder is  *)
(* never rewritten (so a placeholder is patched at most once), and the     *)
(* program a first call of parse returns holds no Jmp or JmpIf without     *)
(* operand (so every placeholder was patched).                             *)
C17_OnlyAppendAndPatch ==
    /\ [][mode # "vm" =>
            /\ Len(instrs') >= Len(instrs)
            /\ \A i \in 1..Len(instrs) :
                  \/ instrs'[i] = instrs[i]
                  \/ /\ Patched(instrs[i], instrs'[i])
                     /\ frames # <<>>
                     /\ i - 1 \in Recorded(Top)]_vars
    /\ [](Compiled =>
            \A i \in Indices(bytecode.program) :
                ~Placeholder(At(bytecode.program, i)))

(* in the middle of an if/else: the JmpIf is patched, the Jmp that closes  *)
(* the true-branch still waits for its target                              *)
C17_Witness ==
    /\ Compiling
    /\ \E i \in Indices(instrs) :
          At(instrs, i).kind = "Jmp" /\ Placeholder(At(instrs, i))
    /\ \E i \in Indices(instrs) :
          At(instrs, i).kind = "JmpIf" /\ IsSome(At(instrs, i).operands)

(* the number of instructions an expression, and a list of expressions,    *)
(* compiles to: one per simple expression, Bind and Unbind around a peek   *)
(* body, GlobalStore after a var's value, and the jumps of if and while    *)
RECURSIVE CodeLen(_), ExprLen(_)
ExprLen(e) ==
    CASE e.tag = "If" ->
           CodeLen(e.cond) + 1 + CodeLen(e.if_branch)
             + (IF IsSome(e.else_branch)
                THEN 1 + CodeLen(Unwrap(e.else_branch)) ELSE 0)
      [] e.tag = "Whlie" -> CodeLen(e.cond) + 1 + CodeLen(e.while_block) + 1
      [] e.tag = "Var" -> CodeLen(e.value) + 1
      [] e.tag = "Peek" -> 1 + CodeLen(e.body) + 1
      [] OTHER -> 1
CodeLen(es) == IF es = <<>> THEN 0 ELSE ExprLen(Head(es)) + CodeLen(Tail(es))

(* the if and while blocks of an expression list whose code starts at      *)
(* index S, at any depth, each with the index its own code starts at       *)
RECURSIVE Blocks(_, _), Inner(_, _)
Inner(e, S) ==
    CASE e.tag = "If" ->
           {[e |-> e, at |-> S]}
             \cup Blocks(e.cond, S)
             \cup Blocks(e.if_branch, S + CodeLen(e.cond) + 1)
             \cup (IF IsSome(e.else_branch)
                   THEN Blocks(Unwrap(e.else_branch),
                               S + CodeLen(e.cond) + 1 + CodeLen(e.if_branch) + 1)
                   ELSE {})
      [] e.tag = "Whlie" ->
           {[e |-> e, at |-> S]}
             \cup Blocks(e.cond, S)
             \cup Blocks(e.while_block, S + CodeLen(e.cond) + 1)
      [] e.tag = "Peek" -> Blocks(e.body, S + 1)
      [] OTHER -> {}
Blocks(es, S) ==
    IF es = <<>> THEN {}
    ELSE Inner(Head(es), S) \cup Blocks(Tail(es), S + ExprLen(Head(es)))

IfBlocks == {b \in Blocks(source, 0) : b.e.tag = "If"}
WhileBlocks == {b \in Blocks(source, 0) : b.e.tag = "Whlie"}
Count(prog, kind) == Cardinality({i \in Indices(prog) : At(prog, i).kind = kind})

(* C18: an if without else compiles to its condition's code, one JmpIf,    *)
(* the true-branch's code, the JmpIf targeting the first index after the   *)
(* true-branch; an if with else to the condition's code, one JmpIf, the    *)
(* true-branch's code, one Jmp, the else-branch's code, the JmpIf          *)
(* targeting the index right after the Jmp and the Jmp the first index     *)
(* after the else-branch.  The program holds one JmpIf per if and while.   *)
C18_IfLayout ==
    Compiled =>
        /\ Len(bytecode.program) = CodeLen(source)
        /\ Count(bytecode.program, "JmpIf") = Cardinality(Blocks(source, 0))
        /\ \A b \in IfBlocks :
              LET j == b.at + CodeLen(b.e.cond)
                  after_true == j + 1 + CodeLen(b.e.if_branch)
              IN IF IsSome(b.e.else_branch)
                 THEN /\ At(bytecode.program, j) =
                            Instr("JmpIf", Some(after_true + 1))
                      /\ At(bytecode.program, after_true) =
                            Instr("Jmp", Some(after_true + 1
                                       + CodeLen(Unwrap(b.e.else_branch))))
                 ELSE At(bytecode.program, j) = Instr("JmpIf", Some(after_true))

(* a compiled if/else that does not start the program, with a condition,   *)
(* a block inside its true-branch, and an else-branch that is not empty    *)
C18_Witness ==
    /\ Compiled
    /\ \E b \in IfBlocks :
          /\ b.at > 0
          /\ b.e.cond # <<>>
          /\ CodeLen(b.e.if_branch) > 1
          /\ IsSome(b.e.else_branch)
          /\ Unwrap(b.e.else_branch) # <<>>

(* C19: a while compiles to its condition's code starting at the entry     *)
(* index E, one JmpIf, the body's code, one Jmp whose target is E; the     *)
(* JmpIf's target is the first index after that Jmp.  The program holds    *)
(* one Jmp per while and per else-branch.                                  *)
C19_WhileLayout ==
    Compiled =>
        /\ Count(bytecode.program, "Jmp") =
              Cardinality(WhileBlocks)
                + Cardinality({b \in IfBlocks : IsSome(b.e.else_branch)})
        /\ \A b \in WhileBlocks :
              LET E == b.at
                  j == E + CodeLen(b.e.cond)
                  back == j + 1 + CodeLen(b.e.while_block)
              IN /\ At(bytecode.program, j) = Instr("JmpIf", Some(back + 1))
                 /\ At(bytecode.program, back) = Instr("Jmp", Some(E))

(* a compiled while that does not start the program, with a condition and  *)
(* a block inside its body                                                 *)
C19_Witness ==
    /\ Compiled
    /\ \E b \in WhileBlocks :
          /\ b.at > 0
          /\ b.e.cond # <<>>
          /\ CodeLen(b.e.while_block) > 1

(* C20: compiling a reference to an identifier looks in the local binding  *)
(* window first and in the global slot table second: with a local binding  *)
(* at position p it emits PushBind(p); else with a global slot s it emits  *)
(* GlobalLoad(s); else parse fails with the undefined-identifier error and *)
(* emits nothing for the reference.                                        *)
C20_IdentLookupLocalFirst ==
    [][(Compiling /\ HasNext /\ NextExpr.tag = "IdentExpr") =>
          LET n == NextExpr.name
          IN IF n \in DOMAIN local_def
             THEN /\ instrs' = Append(instrs, Instr("PushBind", Some(local_def[n])))
                  /\ result' = "running"
             ELSE IF n \in DOMAIN var_def
             THEN /\ instrs' = Append(instrs, Instr("GlobalLoad", Some(var_def[n])))
                  /\ result' = "running"
             ELSE /\ instrs' = instrs
                  /\ result' = "err"
                  /\ error' = "is not defined"
                  /\ bytecode' = bytecode]_vars

(* a reference compiled to PushBind although its name is a global too *)
C20_Witness ==
    /\ Compiling
    /\ instrs # <<>>
    /\ instrs[Len(instrs)].kind = "PushBind"
    /\ \E n \in (DOMAIN local_def) \cap (DOMAIN var_def) :
          instrs[Len(instrs)].operands = Some(local_def[n])

(* C21 as claimed: once a global name has a slot, the slot of the name     *)
(* never changes: a further var declaration of the name and an assignment  *)
(* to it allocate no slot and emit GlobalStore with that slot, and a read  *)
(* of it (where no local binding hides it) emits GlobalLoad with it.       *)
C21_GlobalSlotStable ==
    [][(Compiling /\ HasNext) =>
          LET e == NextExpr
          IN /\ \A n \in DOMAIN var_def :
                   n \in DOMAIN var_def' /\ var_def'[n] = var_def[n]
             /\ (e.tag \in {"Var", "Assigin"} /\ e.name \in DOMAIN var_def
                   /\ result' = "running") =>
                   /\ var_count' = var_count
                   /\ instrs'[Len(instrs')] =
                         Instr("GlobalStore", Some(var_def[e.name]))
             /\ (e.tag = "IdentExpr" /\ e.name \in DOMAIN var_def
                   /\ e.name \notin DOMAIN local_def) =>
                   instrs'[Len(instrs')] =
                       Instr("GlobalLoad", Some(var_def[e.name]))]_vars

(* the slots of the global table, and the table as a one-to-one mapping *)
Slots(m) == {m[n] : n \in DOMAIN m}
OneToOne(m) == \A n \in DOMAIN m : \A k \in DOMAIN m : n # k => m[n] # m[k]

(* C22: var_count counts the slot allocations: it never decreases, each    *)
(* allocation yields the value it had (the k-th allocation slot k-1),      *)
(* every slot of the global table is below var_count, two names never      *)
(* share a slot, and no name leaves the global table.                      *)
C22_SlotsMonotonic ==
    /\ [](mode # "vm" =>
            /\ \A n \in DOMAIN var_def : var_def[n] >= 0 /\ var_def[n] < var_count
            /\ OneToOne(var_def))
    /\ [][mode # "vm" =>
            /\ var_count' >= var_count
            /\ (DOMAIN var_def) \subseteq (DOMAIN var_def')
            /\ \A n \in DOMAIN var_def' :
                  \/ n \in DOMAIN var_def /\ var_def'[n] = var_def[n]
                  \/ var_def'[n] \in var_count..(var_count' - 1)
            /\ var_count' = var_count + 1 => var_count \in Slots(var_def')]_vars

(* two globals in the slots 0 and 1, the second made by an assignment *)
C22_Witness ==
    /\ mode = "compile"
    /\ var_count = 2
    /\ DOMAIN var_def = {"a", "b"}
    /\ var_def["b"] = 0
    /\ var_def["a"] = 1
    /\ instrs # <<>>
    /\ instrs[Len(instrs)] = Instr("GlobalStore", Some(1))

(* the operands of the Const instructions of a program, in program order *)
RECURSIVE ConstOperands(_)
ConstOperands(prog) ==
    IF prog = <<>> THEN <<>>
    ELSE IF Head(prog).kind = "Const"
         THEN <<Head(prog).operands>> \o ConstOperands(Tail(prog))
         ELSE ConstOperands(Tail(prog))
Counting(n) == [i \in 1..n |-> Some(i - 1)]
IsPrefix(s, t) == Len(s) <= Len(t) /\ SubSeq(t, 1, Len(s)) = s

(* C23 as claimed: every integer, string or list literal appends one entry *)
(* to the constant pool and emits Const with the index of that entry; the  *)
(* pool only grows at its end; so in every state of a compilation and in   *)
(* the Bytecode returned the Const operands, in program order, are 0, 1,   *)
(* 2, ... up to the pool size - 1.                                         *)
C23_ConstPoolAppendOnly ==
    /\ [](mode # "vm" =>
            /\ ConstOperands(instrs) = Counting(Len(consts))
            /\ result = "ok" =>
                  ConstOperands(bytecode.program) = Counting(Len(bytecode.consts)))
    /\ [][mode # "vm" =>
            /\ IsPrefix(consts, consts')
            /\ (Compiling /\ HasNext
                  /\ NextExpr.tag \in {"IntExpr", "StrExpr", "ListExpr"}) =>
                  /\ Len(consts') = Len(consts) + 1
                  /\ instrs' = Append(instrs, Instr("Const", Some(Len(consts))))]_vars

(* the same, but for an integer literal whose text is no i64: there the    *)
(* compiler panics and the pool and the instructions stay as they were     *)
C23_UnlessPanic ==
    /\ [](mode # "vm" =>
            /\ ConstOperands(instrs) = Counting(Len(consts))
            /\ result = "ok" =>
                  ConstOperands(bytecode.program) = Counting(Len(bytecode.consts)))
    /\ [][mode # "vm" =>
            /\ IsPrefix(consts, consts')
            /\ (Compiling /\ HasNext
                  /\ NextExpr.tag \in {"IntExpr", "StrExpr", "ListExpr"}) =>
                  IF NextExpr.tag = "IntExpr" /\ ParseI64(NextExpr.v) = None
                  THEN result' = "panic" /\ consts' = consts /\ instrs' = instrs
                  ELSE /\ Len(consts') = Len(consts) + 1
                       /\ instrs' = Append(instrs, Instr("Const", Some(Len(consts))))]_vars

(* a string, then a loop over a list and an integer: three entries *)
C23_Witness ==
    /\ Compiled
    /\ bytecode.consts = <<Str("s"), List(<<>>), Int64(1)>>
    /\ Count(bytecode.program, "Const") = 3
    /\ Count(bytecode.program, "Jmp") = 1

(* C24 as claimed: from_literal_token returns Ok for every integer token   *)
(* (an integer literal) and for the keyword tokens true and false (a       *)
(* boolean literal), with the token's location, and an error for a token   *)
(* of any other kind or any other keyword.                                 *)
C24_LiteralTokens ==
    (mode = "literal" /\ literal.res # "pending") =>
        IF token.kind = "Interger"
        THEN /\ literal.res = "Ok"
             /\ literal.expr.lit = "IntegerLiteral"
             /\ literal.expr.loc = token.loc
        ELSE IF token.kind = "Keyword"
                /\ token.value \in {<<"t", "r", "u", "e">>, <<"f", "a", "l", "s", "e">>}
        THEN /\ literal.res = "Ok"
             /\ literal.expr.lit = "BooleanLiteral"
             /\ literal.expr.loc = token.loc
        ELSE literal.res = "Err"

(* the last step was a jump that was taken *)
LastJumped ==
    /\ last.res = "Ok"
    /\ last.kind \in Jumps
    /\ IsSome(last.operands)
    /\ (last.kind = "JmpIf" => LastTop = Word(1))

C26_SpIsDepth ==
    /\ sp = Len(stack)
    /\ sp >= 0
    /\ sp <= STACK_CAPACITY

(* after a Div that popped its two operands and trapped *)
C26_Witness ==
    /\ last.kind = "Div"
    /\ last.res = "DivByZero"
    /\ last.pre_sp = 3
    /\ sp = 1
    /\ Len(stack) = 1

Traps == {"StackOverflow", "StackUnderflow", "DivByZero", "OperandNotProvided",
          "AddersOutOfBounds", "ProgramEndWithoutHalt"}

(* C29 as claimed: a step that returns a trap leaves the stack and sp as   *)
(* they were before the step, only ip has advanced; a Div that traps with  *)
(* DivByZero and a JmpIf that traps with AddersOutOfBounds still have      *)
(* their operands on the stack.                                            *)
C29_TrapLeavesStack ==
    last.res \in Traps =>
        /\ stack = last.pre_stack
        /\ sp = last.pre_sp
        /\ ip = last.pre_ip + 1

(* run() on a program without Jmp and JmpIf whose Push and Dup carry their *)
(* operands                                                                *)
JumpFree(prog) ==
    \A i \in Indices(prog) :
        /\ At(prog, i).kind \notin Jumps
        /\ At(prog, i).kind \in {"Push", "Dup"} => IsSome(At(prog, i).operands)
JumpFreeRun == mode = "vm" /\ driver = "run" /\ JumpFree(vm_program)

(* C30 as claimed: run() on a program without Jmp and JmpIf terminates:    *)
(* every step moves ip one further, ip never passes the program length by  *)
(* more than the one call that finds the end, so at most as many           *)
(* instructions are executed as the program is long, and run() returns,    *)
(* with is_halted set or after a trap.                                     *)
C30_JumpFreeRunTerminates ==
    /\ [](JumpFreeRun =>
            /\ ip <= Len(vm_program) + 1
            /\ vstate # "crashed"
            /\ vstate = "done" => (is_halted \/ last.res \in Traps))
    /\ [][JumpFreeRun => ip' = ip + 1]_vars
    /\ (JumpFreeRun ~> (vstate = "done"))

(* C30 but for the panics of the arithmetic: run() on a program without    *)
(* Jmp and JmpIf comes to an end within as many steps as the program is    *)
(* long; it returns with is_halted set or after a trap, or it does not     *)
(* return because an Add, Minus, Mul or Div panicked.                      *)
C30_UnlessPanic ==
    /\ [](JumpFreeRun =>
            /\ ip <= Len(vm_program) + 1
            /\ vstate = "done" => (is_halted \/ last.res \in Traps)
            /\ vstate = "crashed" =>
                  (last.res = "panic" /\ last.kind \in {"Add", "Minus", "Mul", "Div"}))
    /\ [][JumpFreeRun => ip' = ip + 1]_vars
    /\ (JumpFreeRun ~> (vstate \in {"done", "crashed"}))

(* run() on a program without jumps did not return: the division of        *)
(* i64::MIN by -1 panicked                                                 *)
C30_Panicked ==
    /\ JumpFreeRun
    /\ vstate = "crashed"
    /\ last.kind = "Div"
    /\ last.pre_stack = <<I64Min, Word(-1)>>

(* run() executed the four instructions of a program and returned at the   *)
(* call that found its end                                                 *)
C30_Witness ==
    /\ JumpFreeRun
    /\ vstate = "done"
    /\ Len(vm_program) = 4
    /\ last.kind = "end"
    /\ ip = 5

(* a peek block was entered and nothing of its body is compiled yet *)
PeekEntered ==
    /\ Compiling
    /\ frames # <<>>
    /\ Top.fn = "peek_expr"
    /\ Top.iter = Top.expr.body
Distinct(ns) == \A i \in 1..Len(ns) : \A j \in 1..Len(ns) : i # j => ns[i] # ns[j]

(* C27 as claimed: when a peek block of N (different) names is entered,    *)
(* the names get their positions in reverse declaration order (a name      *)
(* declared later gets a lower position), the N names resolve to N         *)
(* pairwise distinct positions, and none of them to the position of        *)
(* another local binding visible in the body; also when names of the block *)
(* shadow outer local bindings.                                            *)
C27_PeekPositionsDistinct ==
    (PeekEntered /\ Distinct(Top.expr.names)) =>
        LET ns == Top.expr.names
            own == {ns[i] : i \in 1..Len(ns)}
        IN /\ own \subseteq DOMAIN local_def
           /\ \A i \in 1..Len(ns) : \A j \in 1..Len(ns) :
                 i < j => local_def[ns[i]] > local_def[ns[j]]
           /\ \A i \in 1..Len(ns) : \A j \in 1..Len(ns) :
                 i # j => local_def[ns[i]] # local_def[ns[j]]
           /\ \A n \in own : \A k \in (DOMAIN local_def) \ own :
                 local_def[n] # local_def[k]

(* the peek blocks of an expression list whose code starts at index S, at  *)
(* any depth, each with the index of its Bind                              *)
RECURSIVE Peeks(_, _), PeekInner(_, _)
PeekInner(e, S) ==
    CASE e.tag = "If" ->
           Peeks(e.cond, S)
             \cup Peeks(e.if_branch, S + CodeLen(e.cond) + 1)
             \cup (IF IsSome(e.else_branch)
                   THEN Peeks(Unwrap(e.else_branch),
                              S + CodeLen(e.cond) + 1 + CodeLen(e.if_branch) + 1)
                   ELSE {})
      [] e.tag = "Whlie" ->
           Peeks(e.cond, S) \cup Peeks(e.while_block, S + CodeLen(e.cond) + 1)
      [] e.tag = "Peek" -> {[e |-> e, at |-> S]} \cup Peeks(e.body, S + 1)
      [] OTHER -> {}
Peeks(es, S) ==
    IF es = <<>> THEN {}
    ELSE PeekInner(Head(es), S) \cup Peeks(Tail(es), S + ExprLen(Head(es)))

(* index i lies behind the Bind of block b and not behind its Unbind *)
Within(b, i) == b.at < i /\ i <= b.at + 1 + CodeLen(b.e.body)

(* C28: in a successfully compiled program every peek block of N names has *)
(* Bind(N) right before the code of its body and Unbind(N) right after it, *)
(* the program holds no other Bind or Unbind, and no Jmp or JmpIf leads    *)
(* from outside a Bind/Unbind pair to inside it or from inside to outside. *)
C28_BindUnbindBalanced ==
    Compiled =>
        /\ Count(bytecode.program, "Bind") = Cardinality(Peeks(source, 0))
        /\ Count(bytecode.program, "Unbind") = Cardinality(Peeks(source, 0))
        /\ \A b \in Peeks(source, 0) :
              /\ At(bytecode.program, b.at) = Instr("Bind", Some(Len(b.e.names)))
              /\ At(bytecode.program, b.at + 1 + CodeLen(b.e.body)) =
                    Instr("Unbind", Some(Len(b.e.names)))
              /\ \A i \in Indices(bytecode.program) :
                    At(bytecode.program, i).kind \in Jumps =>
                        (Within(b, i) <=>
                            Within(b, Unwrap(At(bytecode.program, i).operands)))

(* a compiled peek block around an if or a while: a jump inside the pair   *)
(* leads to the Unbind                                                     *)
C28_Witness ==
    /\ Compiled
    /\ \E b \in Peeks(source, 0) :
          /\ Len(b.e.names) > 0
          /\ \E i \in Indices(bytecode.program) :
                /\ Within(b, i)
                /\ At(bytecode.program, i).kind = "JmpIf"
                /\ Unwrap(At(bytecode.program, i).operands) =
                      b.at + 1 + CodeLen(b.e.body)

----------------------------------------------------------------------------
(* The if blocks of the token-level parser.                                *)

(* the body of a procedure whose token stream is one of the well-formed    *)
(* ones: what stands between its opening and its closing brace             *)
WellFormedStream == mode = "parser" /\ input \in {ProcOf(b) : b \in IfBodies}
ProcBody == SubSeq(input, 4, Len(input) - 1)

(* the tokens of such a body that each stand for one instruction, and how  *)
(* many of them are among the first n tokens                               *)
Emitting(t) == t.kind \in {"If", "Int", "Hlt"}
EmitCount(b, n) == Cardinality({j \in 1..n : Emitting(b[j])})

(* how many braces are open after the first n tokens, and the brace that   *)
(* closes the block of the if at token i                                   *)
Depth(b, n) ==
    Cardinality({j \in 1..n : b[j].kind = "CurlyOpen"})
      - Cardinality({j \in 1..n : b[j].kind = "CurlyClose"})
ClosingBrace(b, i) ==
    CHOOSE j \in (i + 2)..Len(b) :
        /\ b[j].kind = "CurlyClose"
        /\ Depth(b, j) = Depth(b, i)
        /\ \A k \in (i + 2)..(j - 1) : Depth(b, k) > Depth(b, i)

(* the if blocks enclosed by another if block *)
NestedIfs(b) == {i \in 1..Len(b) : b[i].kind = "If" /\ Depth(b, i) > 0}

(* C31 as claimed: in the token-level parser, every if block of a          *)
(* procedure, top-level or nested in another if block, yields one JmpIf    *)
(* placed immediately before the instructions of the block, and its target *)
(* is the index, in the finished instruction list of the procedure, of the *)
(* first instruction after the block.                                      *)
C31_IfBlockTargets ==
    (WellFormedStream /\ parsed # NotParsed) =>
        /\ parsed.res = "Ok"
        /\ Len(parsed.stmt) = EmitCount(ProcBody, Len(ProcBody))
        /\ \A i \in 1..Len(ProcBody) :
              ProcBody[i].kind = "If" =>
                 parsed.stmt[EmitCount(ProcBody, i)]
                    = Instr("JmpIf",
                            CHSValueP(EmitCount(ProcBody,
                                                ClosingBrace(ProcBody, i))))

(* the same for the if blocks that no other if block encloses *)
C31_TopLevelIfTargets ==
    (WellFormedStream /\ parsed # NotParsed) =>
        /\ parsed.res = "Ok"
        /\ Len(parsed.stmt) = EmitCount(ProcBody, Len(ProcBody))
        /\ \A i \in 1..Len(ProcBody) :
              (ProcBody[i].kind = "If" /\ i \notin NestedIfs(ProcBody)) =>
                 parsed.stmt[EmitCount(ProcBody, i)]
                    = Instr("JmpIf",
                            CHSValueP(EmitCount(ProcBody,
                                                ClosingBrace(ProcBody, i))))

(* an if block at depth n has a target n below the claimed one *)
C31_NestedIfTargetsShort ==
    (WellFormedStream /\ parsed # NotParsed) =>
        \A i \in NestedIfs(ProcBody) :
           parsed.stmt[EmitCount(ProcBody, i)]
              = Instr("JmpIf",
                      CHSValueP(EmitCount(ProcBody, ClosingBrace(ProcBody, i))
                                  - Depth(ProcBody, i)))

====
